---- MODULE Spec2Model ----
(***************************************************************************)
(* Typed access layer of candystore (src/typed.rs): CandyTypedStore,       *)
(* CandyTypedList and CandyTypedDeque over one shared byte-oriented store. *)
(*                                                                         *)
(* Bytes are sequences of numbers 0..255.  The untyped store (CandyStore)  *)
(* is not part of typed.rs; its primitives are modelled from the           *)
(* specification's description of the store contract and are the           *)
(* operators whose names end in _raw, _in_list, _list_*, _queue_*.         *)
(***************************************************************************)
EXTENDS Naturals, Sequences, FiniteSets

VARIABLES
    kv,      \* store: composite map key (bytes) -> value bytes
    lists,   \* store: composite list key (bytes) -> sequence of <<item key bytes, value bytes>>
    queues,  \* store: composite queue key (bytes) -> [items: sequence of <<idx, bytes>>, next: index]
    last,    \* the last typed call and what it returned
    hist,    \* history: indices the store assigned to pushes, pops that returned an
             \* element, progress through the end-to-end queue example, the store
             \* the concurrent callers started from
    pc,      \* concurrent callers: position of each caller
    local    \* what the callers hold: the arguments and the answer of each concurrent
             \* caller; the arguments given to make_key and make_list_key; the view
             \* objects and the stores behind their handles

vars == <<kv, lists, queues, last, hist, pc, local>>

\* ------------------------------------------------------------- bounds
MaxKey == 0      \* u8 map keys are 0..MaxKey
MaxVal == 1      \* u8 and u16 values are 5 * 2^i, i in 0..MaxVal
MaxItem == 2     \* list item keys are 0..MaxItem
MaxPushes == 3   \* pushes accepted by one queue (caps the index counter)
NumCallers == 2  \* concurrent callers of get_or_create

\* ------------------------------------------------------------- encoding
\* TYPE_ID of the built-in key types used here, and of two key types of the
\* caller's, MyPair(u8, u8) and YourPair(u8, u8), with TYPE_IDs of the caller's
\* choice.
TYPE_ID(T) ==
    CASE T = "u8" -> 1
      [] T = "u16" -> 2
      [] T = "u32" -> 3
      [] T = "bool" -> 11
      [] T = "MyPair" -> 33554432
      [] T = "YourPair" -> 4660

\* bytes_of(&TYPE_ID): the four bytes of a u32, little-endian.
bytes_of(n) ==
    << n % 256, (n \div 256) % 256, (n \div 65536) % 256, (n \div 16777216) % 256 >>

\* The reserved suffix of typed map entries.
TYPED_NAMESPACE == << 2 >>

\* The values of a type.  A bool is written 0 (false) or 1 (true).
Keys(T) ==
    CASE T = "bool" -> {0, 1}
      [] T \in {"MyPair", "YourPair"} -> (0..(MaxKey + 1)) \X (0..(MaxKey + 1))
      [] OTHER -> 0..MaxKey
Vals(T) ==
    CASE T = "bool" -> {0, 1}
      [] T = "u32" -> {5, 10, 20}
      [] OTHER -> { 5 * (2 ^ i) : i \in 0..MaxVal }

\* Encode::to_bytes::<LE>: fixed-width little-endian numbers, one byte for a bool.
to_bytes(T, x) ==
    CASE T = "u8" -> << x % 256 >>
      [] T = "u16" -> << x % 256, (x \div 256) % 256 >>
      [] T = "u32" -> bytes_of(x)
      [] T = "bool" -> << IF x = 0 THEN 0 ELSE 1 >>
      [] T \in {"MyPair", "YourPair"} -> << x[1] % 256, x[2] % 256 >>

Err == << "Err" >>
Ok(x) == << "Ok", x >>
None == << "None" >>
Some(x) == << "Some", x >>
IsSome(o) == o[1] = "Some"

\* from_bytes::<T>: Ok(value), or Err when the bytes are too short for T.
from_bytes(T, bytes) ==
    CASE T = "u8" -> IF Len(bytes) >= 1 THEN Ok(bytes[1]) ELSE Err
      [] T = "u16" -> IF Len(bytes) >= 2 THEN Ok(bytes[1] + 256 * bytes[2]) ELSE Err
      [] T = "u32" -> IF Len(bytes) >= 4
                      THEN Ok(bytes[1] + 256 * bytes[2] + 65536 * bytes[3]
                              + 16777216 * bytes[4])
                      ELSE Err
      [] T = "bool" -> IF Len(bytes) >= 1 THEN Ok(IF bytes[1] = 0 THEN 0 ELSE 1) ELSE Err
      [] T \in {"MyPair", "YourPair"} ->
             IF Len(bytes) >= 2 THEN Ok(<< bytes[1], bytes[2] >>) ELSE Err

\* `Ok(Some(from_bytes::<V>(&v)?))`: a decode error replaces the whole result.
OkSomeDecoded(T, bytes) ==
    LET d == from_bytes(T, bytes) IN IF d = Err THEN Err ELSE Some(d[2])

\* ------------------------------------------------------------- the store's map primitives
Put(s, k, v) == [x \in (DOMAIN s) \cup {k} |-> IF x = k THEN v ELSE s[x]]
Del(s, k) == [x \in (DOMAIN s) \ {k} |-> s[x]]
Empty == [x \in {} |-> << >>]

get_raw(s, k) == IF k \in DOMAIN s THEN Some(s[k]) ELSE None

set_raw(s, k, v) ==
    [store |-> Put(s, k, v),
     status |-> IF k \in DOMAIN s THEN << "PrevValue", s[k] >> ELSE << "CreatedNew" >>]

\* expected is None or Some(bytes)
replace_raw(s, k, v, expected) ==
    IF k \notin DOMAIN s THEN [store |-> s, status |-> << "DoesNotExist" >>]
    ELSE IF IsSome(expected) /\ expected[2] # s[k]
         THEN [store |-> s, status |-> << "WrongValue", s[k] >>]
         ELSE [store |-> Put(s, k, v), status |-> << "PrevValue", s[k] >>]

\* One atomic step of the store: the existing value, or the default inserted.
get_or_create_raw(s, k, default) ==
    IF k \in DOMAIN s
    THEN [store |-> s, status |-> << "ExistingValue", s[k] >>]
    ELSE [store |-> Put(s, k, default), status |-> << "CreatedNew", default >>]

remove_raw(s, k) ==
    [store |-> Del(s, k), ret |-> IF k \in DOMAIN s THEN Some(s[k]) ELSE None]

\* ------------------------------------------------------------- CandyTypedStore<K, V>
\* A view is [K |-> key type, V |-> value type].
MapViews == { [K |-> "u8", V |-> "u8"], [K |-> "bool", V |-> "u16"] }

make_key_untagged(K, key) == to_bytes(K, key) \o TYPED_NAMESPACE

make_key(K, key) == to_bytes(K, key) \o bytes_of(TYPE_ID(K)) \o TYPED_NAMESPACE

CandyTypedStore_contains_decoding(s, mv, key) ==
    LET g == get_raw(s, make_key(mv.K, key))
    IN  IF IsSome(g)
        THEN IF from_bytes(mv.V, g[2]) = Err THEN Err ELSE << "True" >>
        ELSE << "False" >>

CandyTypedStore_contains(s, mv, key) ==
    IF IsSome(get_raw(s, make_key(mv.K, key))) THEN << "True" >> ELSE << "False" >>

CandyTypedStore_get(s, mv, key) ==
    LET g == get_raw(s, make_key(mv.K, key))
    IN  IF IsSome(g) THEN OkSomeDecoded(mv.V, g[2]) ELSE None

CandyTypedStore_replace_upserts(s, mv, key, val, expected_val) ==
    LET r == set_raw(s, make_key(mv.K, key), to_bytes(mv.V, val))
    IN  [store |-> r.store,
         ret |-> IF r.status[1] = "PrevValue" THEN OkSomeDecoded(mv.V, r.status[2]) ELSE None]

CandyTypedStore_replace_unconditional(s, mv, key, val, expected_val) ==
    LET r == replace_raw(s, make_key(mv.K, key), to_bytes(mv.V, val), None)
    IN  [store |-> r.store,
         ret |-> IF r.status[1] = "PrevValue" THEN OkSomeDecoded(mv.V, r.status[2]) ELSE None]

\* expected_val is None or Some(value of V)
CandyTypedStore_replace(s, mv, key, val, expected_val) ==
    LET kbytes == make_key(mv.K, key)
        vbytes == to_bytes(mv.V, val)
        ebytes == IF IsSome(expected_val) THEN to_bytes(mv.V, expected_val[2]) ELSE << >>
        r == replace_raw(s, kbytes, vbytes,
                         IF IsSome(expected_val) THEN Some(ebytes) ELSE None)
    IN  [store |-> r.store,
         ret |-> CASE r.status[1] = "DoesNotExist" -> None
                   [] r.status[1] = "PrevValue" -> OkSomeDecoded(mv.V, r.status[2])
                   [] r.status[1] = "WrongValue" -> None]

CandyTypedStore_set_returns_new(s, mv, key, val) ==
    LET r == set_raw(s, make_key(mv.K, key), to_bytes(mv.V, val))
    IN  [store |-> r.store,
         ret |-> IF r.status[1] = "CreatedNew" THEN None
                 ELSE OkSomeDecoded(mv.V, to_bytes(mv.V, val))]

CandyTypedStore_set_decoding_first(s, mv, key, val) ==
    LET prev == get_raw(s, make_key(mv.K, key))
        r == set_raw(s, make_key(mv.K, key), to_bytes(mv.V, val))
    IN  IF IsSome(prev) /\ from_bytes(mv.V, prev[2]) = Err
        THEN [store |-> s, ret |-> Err]
        ELSE [store |-> r.store,
              ret |-> IF r.status[1] = "CreatedNew" THEN None
                      ELSE OkSomeDecoded(mv.V, r.status[2])]

CandyTypedStore_set(s, mv, key, val) ==
    LET r == set_raw(s, make_key(mv.K, key), to_bytes(mv.V, val))
    IN  [store |-> r.store,
         ret |-> IF r.status[1] = "CreatedNew" THEN None
                 ELSE OkSomeDecoded(mv.V, r.status[2])]

CandyTypedStore_get_or_create_returns_default(s, mv, key, default_val) ==
    LET r == get_or_create_raw(s, make_key(mv.K, key), to_bytes(mv.V, default_val))
    IN  [store |-> r.store, ret |-> from_bytes(mv.V, to_bytes(mv.V, default_val))]

CandyTypedStore_get_or_create(s, mv, key, default_val) ==
    LET r == get_or_create_raw(s, make_key(mv.K, key), to_bytes(mv.V, default_val))
    IN  [store |-> r.store, ret |-> from_bytes(mv.V, r.status[2])]

CandyTypedStore_remove(s, mv, k) ==
    LET r == remove_raw(s, make_key(mv.K, k))
    IN  [store |-> r.store,
         ret |-> IF IsSome(r.ret) THEN OkSomeDecoded(mv.V, r.ret[2]) ELSE None]

\* ------------------------------------------------------------- calls through a map view
NoArg == << "-" >>
\* A call: its arguments, what it returned, and the store as the call found it.
Call(op, view, key, val, exp, ret, pre) ==
    [op |-> op, view |-> view, key |-> key, val |-> val, exp |-> exp, ret |-> ret,
     pre |-> pre]

Init ==
    /\ kv = Empty
    /\ lists = Empty
    /\ queues = Empty
    /\ last = Call("new", NoArg, NoArg, NoArg, NoArg, NoArg, Empty)
    /\ hist = [pushed |-> << >>, pops |-> 0, script |-> 0, kv0 |-> Empty]
    /\ pc = << >>
    /\ local = << >>

MapContains ==
    \E mv \in MapViews : \E key \in Keys(mv.K) :
        /\ last' = Call("map.contains", mv, key, NoArg, NoArg, CandyTypedStore_contains(kv, mv, key), kv)
        /\ UNCHANGED <<kv, lists, queues, hist, pc, local>>

MapGet ==
    \E mv \in MapViews : \E key \in Keys(mv.K) :
        /\ last' = Call("map.get", mv, key, NoArg, NoArg, CandyTypedStore_get(kv, mv, key), kv)
        /\ UNCHANGED <<kv, lists, queues, hist, pc, local>>

MapReplace ==
    \E mv \in MapViews : \E key \in Keys(mv.K) : \E val \in Vals(mv.V) :
    \E exp \in {None} \cup { Some(e) : e \in Vals(mv.V) } :
        LET r == CandyTypedStore_replace(kv, mv, key, val, exp)
        IN  /\ kv' = r.store
            /\ last' = Call("map.replace", mv, key, val, exp, r.ret, kv)
            /\ UNCHANGED <<lists, queues, hist, pc, local>>

MapSet ==
    \E mv \in MapViews : \E key \in Keys(mv.K) : \E val \in Vals(mv.V) :
        LET r == CandyTypedStore_set(kv, mv, key, val)
        IN  /\ kv' = r.store
            /\ last' = Call("map.set", mv, key, val, NoArg, r.ret, kv)
            /\ UNCHANGED <<lists, queues, hist, pc, local>>

MapGetOrCreate ==
    \E mv \in MapViews : \E key \in Keys(mv.K) : \E val \in Vals(mv.V) :
        LET r == CandyTypedStore_get_or_create(kv, mv, key, val)
        IN  /\ kv' = r.store
            /\ last' = Call("map.get_or_create", mv, key, val, NoArg, r.ret, kv)
            /\ UNCHANGED <<lists, queues, hist, pc, local>>

MapRemove ==
    \E mv \in MapViews : \E key \in Keys(mv.K) :
        LET r == CandyTypedStore_remove(kv, mv, key)
        IN  /\ kv' = r.store
            /\ last' = Call("map.remove", mv, key, NoArg, NoArg, r.ret, kv)
            /\ UNCHANGED <<lists, queues, hist, pc, local>>

Next ==
    \/ MapContains
    \/ MapGet
    \/ MapReplace
    \/ MapSet
    \/ MapGetOrCreate
    \/ MapRemove

Spec == Init /\ [][Next]_vars

\* ------------------------------------------------------------- the store's list primitives
\* A list is the sequence of its <<item key bytes, value bytes>> entries from head
\* to tail.  New entries go to the tail; the tail is the promoted end.
ListOf(s, lk) == IF lk \in DOMAIN s THEN s[lk] ELSE << >>
PutList(s, lk, l) == IF l = << >> THEN Del(s, lk) ELSE Put(s, lk, l)
Pos(l, ik) == IF \E i \in 1..Len(l) : l[i][1] = ik
              THEN CHOOSE i \in 1..Len(l) : l[i][1] = ik
              ELSE 0
RemoveAt(l, i) == SubSeq(l, 1, i - 1) \o SubSeq(l, i + 1, Len(l))
Reverse(l) == [i \in 1..Len(l) |-> l[Len(l) + 1 - i]]

owned_get_from_list(s, lk, ik) ==
    LET l == ListOf(s, lk)
        i == Pos(l, ik)
    IN  IF i = 0 THEN None ELSE Some(l[i][2])

owned_set_in_list(s, lk, ik, v, promote) ==
    LET l == ListOf(s, lk)
        i == Pos(l, ik)
    IN  IF i = 0
        THEN [store |-> PutList(s, lk, Append(l, << ik, v >>)), status |-> << "CreatedNew" >>]
        ELSE [store |-> PutList(s, lk, IF promote
                                       THEN Append(RemoveAt(l, i), << ik, v >>)
                                       ELSE [l EXCEPT ![i] = << ik, v >>]),
              status |-> << "PrevValue", l[i][2] >>]

owned_get_or_create_in_list(s, lk, ik, default) ==
    LET l == ListOf(s, lk)
        i == Pos(l, ik)
    IN  IF i = 0
        THEN [store |-> PutList(s, lk, Append(l, << ik, default >>)),
              status |-> << "CreatedNew", default >>]
        ELSE [store |-> s, status |-> << "ExistingValue", l[i][2] >>]

owned_replace_in_list(s, lk, ik, v, expected) ==
    LET l == ListOf(s, lk)
        i == Pos(l, ik)
    IN  IF i = 0 THEN [store |-> s, status |-> << "DoesNotExist" >>]
        ELSE IF IsSome(expected) /\ expected[2] # l[i][2]
             THEN [store |-> s, status |-> << "WrongValue", l[i][2] >>]
             ELSE [store |-> PutList(s, lk, [l EXCEPT ![i] = << ik, v >>]),
                   status |-> << "PrevValue", l[i][2] >>]

owned_remove_from_list(s, lk, ik) ==
    LET l == ListOf(s, lk)
        i == Pos(l, ik)
    IN  IF i = 0 THEN [store |-> s, ret |-> None]
        ELSE [store |-> PutList(s, lk, RemoveAt(l, i)), ret |-> Some(l[i][2])]

\* The items a traversal yields, each Ok(<<k, v>>).
owned_iter_list(s, lk) ==
    LET l == ListOf(s, lk) IN [i \in 1..Len(l) |-> Ok(l[i])]

owned_iter_list_backwards(s, lk) ==
    LET l == ListOf(s, lk) IN [i \in 1..Len(l) |-> Ok(l[Len(l) + 1 - i])]

owned_pop_list_tail(s, lk) ==
    LET l == ListOf(s, lk)
    IN  IF l = << >> THEN [store |-> s, ret |-> None]
        ELSE [store |-> PutList(s, lk, SubSeq(l, 1, Len(l) - 1)), ret |-> Some(l[Len(l)])]

owned_pop_list_head(s, lk) ==
    LET l == ListOf(s, lk)
    IN  IF l = << >> THEN [store |-> s, ret |-> None]
        ELSE [store |-> PutList(s, lk, Tail(l)), ret |-> Some(Head(l))]

owned_peek_list_tail(s, lk) ==
    LET l == ListOf(s, lk) IN IF l = << >> THEN None ELSE Some(l[Len(l)])

owned_peek_list_head(s, lk) ==
    LET l == ListOf(s, lk) IN IF l = << >> THEN None ELSE Some(Head(l))

owned_list_len(s, lk) == Len(ListOf(s, lk))

\* cb maps each entry of the list to what the callback answers for it: Ok(TRUE)
\* keeps it, Ok(FALSE) removes it, Err stops the scan there.
owned_retain_in_list(s, lk, cb) ==
    LET l == ListOf(s, lk)
        failing == { i \in 1..Len(l) : cb[l[i]] = Err }
        stop == IF failing = {} THEN Len(l) + 1
                ELSE CHOOSE i \in failing : \A j \in failing : i <= j
        Keep(e) == cb[e] = Ok(TRUE)
    IN  [store |-> PutList(s, lk, SelectSeq(SubSeq(l, 1, stop - 1), Keep)
                                  \o SubSeq(l, stop, Len(l))),
         ret |-> IF failing = {} THEN Ok("unit") ELSE Err]

\* ------------------------------------------------------------- CandyTypedList<L, K, V>
\* A list view is [L |-> list identifier type, K |-> item key type, V |-> value type].
ListView == [L |-> "u8", K |-> "u8", V |-> "bool"]
ListKeys == {0}
Items == 0..MaxItem

make_list_key_marked(L, list_key) ==
    to_bytes(L, list_key) \o bytes_of(TYPE_ID(L)) \o TYPED_NAMESPACE

make_list_key(L, list_key) == to_bytes(L, list_key) \o bytes_of(TYPE_ID(L))

\* `Ok(Some((from_bytes::<K>(&k)?, from_bytes::<V>(&v)?)))`, and the item of iter.
DecodedPair(lv, e) ==
    LET key == from_bytes(lv.K, e[1])
        val == from_bytes(lv.V, e[2])
    IN  IF key = Err \/ val = Err THEN Err ELSE << key[2], val[2] >>

OkSomePair(lv, o) ==
    IF ~IsSome(o) THEN None
    ELSE LET d == DecodedPair(lv, o[2]) IN IF d = Err THEN Err ELSE Some(d)

CandyTypedList_contains(s, lv, list_key, item_key) ==
    IF IsSome(owned_get_from_list(s, make_list_key(lv.L, list_key), to_bytes(lv.K, item_key)))
    THEN << "True" >> ELSE << "False" >>

CandyTypedList_get(s, lv, list_key, item_key) ==
    LET g == owned_get_from_list(s, make_list_key(lv.L, list_key), to_bytes(lv.K, item_key))
    IN  IF IsSome(g) THEN OkSomeDecoded(lv.V, g[2]) ELSE None

CandyTypedList__set(s, lv, list_key, item_key, val, promote) ==
    LET r == owned_set_in_list(s, make_list_key(lv.L, list_key), to_bytes(lv.K, item_key),
                               to_bytes(lv.V, val), promote)
    IN  [store |-> r.store,
         ret |-> IF r.status[1] = "CreatedNew" THEN None
                 ELSE OkSomeDecoded(lv.V, r.status[2])]

CandyTypedList_set_promotes(s, lv, list_key, item_key, val) ==
    CandyTypedList__set(s, lv, list_key, item_key, val, TRUE)

CandyTypedList_set(s, lv, list_key, item_key, val) ==
    CandyTypedList__set(s, lv, list_key, item_key, val, FALSE)

CandyTypedList_set_promoting_in_place(s, lv, list_key, item_key, val) ==
    CandyTypedList__set(s, lv, list_key, item_key, val, FALSE)

CandyTypedList_set_promoting(s, lv, list_key, item_key, val) ==
    CandyTypedList__set(s, lv, list_key, item_key, val, TRUE)

CandyTypedList_get_or_create(s, lv, list_key, item_key, default_val) ==
    LET r == owned_get_or_create_in_list(s, make_list_key(lv.L, list_key),
                                         to_bytes(lv.K, item_key), to_bytes(lv.V, default_val))
    IN  [store |-> r.store, ret |-> from_bytes(lv.V, r.status[2])]

CandyTypedList_replace(s, lv, list_key, item_key, val, expected_val) ==
    LET ebytes == IF IsSome(expected_val) THEN to_bytes(lv.V, expected_val[2]) ELSE << >>
        r == owned_replace_in_list(s, make_list_key(lv.L, list_key), to_bytes(lv.K, item_key),
                                   to_bytes(lv.V, val),
                                   IF IsSome(expected_val) THEN Some(ebytes) ELSE None)
    IN  [store |-> r.store,
         ret |-> CASE r.status[1] = "DoesNotExist" -> None
                   [] r.status[1] = "PrevValue" -> OkSomeDecoded(lv.V, r.status[2])
                   [] r.status[1] = "WrongValue" -> None]

CandyTypedList_remove(s, lv, list_key, item_key) ==
    LET r == owned_remove_from_list(s, make_list_key(lv.L, list_key), to_bytes(lv.K, item_key))
    IN  [store |-> r.store,
         ret |-> IF IsSome(r.ret) THEN OkSomeDecoded(lv.V, r.ret[2]) ELSE None]

CandyTypedList_iter_from_tail(s, lv, list_key) ==
    LET it == owned_iter_list_backwards(s, make_list_key(lv.L, list_key))
    IN  [i \in 1..Len(it) |-> LET d == DecodedPair(lv, it[i][2])
                              IN  IF d = Err THEN Err ELSE Ok(d)]

\* The sequence of items the iterator yields: Ok(<<key, val>>) or Err for each entry.
CandyTypedList_iter(s, lv, list_key) ==
    LET it == owned_iter_list(s, make_list_key(lv.L, list_key))
    IN  [i \in 1..Len(it) |-> LET d == DecodedPair(lv, it[i][2])
                              IN  IF d = Err THEN Err ELSE Ok(d)]

CandyTypedList_iter_backwards(s, lv, list_key) ==
    LET it == owned_iter_list_backwards(s, make_list_key(lv.L, list_key))
    IN  [i \in 1..Len(it) |-> LET d == DecodedPair(lv, it[i][2])
                              IN  IF d = Err THEN Err ELSE Ok(d)]

CandyTypedList_pop_head_at_tail(s, lv, list_key) ==
    LET r == owned_pop_list_tail(s, make_list_key(lv.L, list_key))
    IN  [store |-> r.store, ret |-> OkSomePair(lv, r.ret)]

CandyTypedList_pop_tail(s, lv, list_key) ==
    LET r == owned_pop_list_tail(s, make_list_key(lv.L, list_key))
    IN  [store |-> r.store, ret |-> OkSomePair(lv, r.ret)]

CandyTypedList_pop_head(s, lv, list_key) ==
    LET r == owned_pop_list_head(s, make_list_key(lv.L, list_key))
    IN  [store |-> r.store, ret |-> OkSomePair(lv, r.ret)]

CandyTypedList_peek_tail(s, lv, list_key) ==
    OkSomePair(lv, owned_peek_list_tail(s, make_list_key(lv.L, list_key)))

CandyTypedList_peek_head_at_tail(s, lv, list_key) ==
    OkSomePair(lv, owned_peek_list_tail(s, make_list_key(lv.L, list_key)))

CandyTypedList_peek_head(s, lv, list_key) ==
    OkSomePair(lv, owned_peek_list_head(s, make_list_key(lv.L, list_key)))

CandyTypedList_len(s, lv, list_key) == Ok(owned_list_len(s, make_list_key(lv.L, list_key)))

\* The caller's predicate: an error at the item key `fail`, otherwise keep the
\* pairs whose value is not `drop`.
RetainFuncs == [drop : Vals(ListView.V), fail : Items \cup {MaxItem + 1}]
ApplyFunc(func, tk, tv) == IF tk = func.fail THEN Err ELSE Ok(tv # func.drop)

CandyTypedList_retain_keeping_undecodable(s, lv, list_key, func) ==
    LET lk == make_list_key(lv.L, list_key)
        l == ListOf(s, lk)
        cb == [e \in { l[i] : i \in 1..Len(l) } |->
                 LET tk == from_bytes(lv.K, e[1])
                     tv == from_bytes(lv.V, e[2])
                 IN  IF tk = Err \/ tv = Err THEN Ok(TRUE) ELSE ApplyFunc(func, tk[2], tv[2])]
    IN  owned_retain_in_list(s, lk, cb)

CandyTypedList_retain(s, lv, list_key, func) ==
    LET lk == make_list_key(lv.L, list_key)
        l == ListOf(s, lk)
        cb == [e \in { l[i] : i \in 1..Len(l) } |->
                 LET tk == from_bytes(lv.K, e[1])
                     tv == from_bytes(lv.V, e[2])
                 IN  IF tk = Err \/ tv = Err THEN Err ELSE ApplyFunc(func, tk[2], tv[2])]
    IN  owned_retain_in_list(s, lk, cb)

\* ------------------------------------------------------------- calls through the list view
ListRead ==
    \E list_key \in ListKeys : \E item_key \in Items :
        /\ \/ last' = Call("list.contains", ListView, list_key, item_key, NoArg,
                           CandyTypedList_contains(lists, ListView, list_key, item_key), lists)
           \/ last' = Call("list.get", ListView, list_key, item_key, NoArg,
                           CandyTypedList_get(lists, ListView, list_key, item_key), lists)
        /\ UNCHANGED <<kv, lists, queues, hist, pc, local>>

ListSet ==
    \E list_key \in ListKeys : \E item_key \in Items : \E val \in Vals(ListView.V) :
        LET r == CandyTypedList_set(lists, ListView, list_key, item_key, val)
        IN  /\ lists' = r.store
            /\ last' = Call("list.set", ListView, list_key, << item_key, val >>, NoArg, r.ret, lists)
            /\ UNCHANGED <<kv, queues, hist, pc, local>>

ListSetPromoting ==
    \E list_key \in ListKeys : \E item_key \in Items : \E val \in Vals(ListView.V) :
        LET r == CandyTypedList_set_promoting(lists, ListView, list_key, item_key, val)
        IN  /\ lists' = r.store
            /\ last' = Call("list.set_promoting", ListView, list_key, << item_key, val >>, NoArg, r.ret, lists)
            /\ UNCHANGED <<kv, queues, hist, pc, local>>

ListGetOrCreate ==
    \E list_key \in ListKeys : \E item_key \in Items : \E val \in Vals(ListView.V) :
        LET r == CandyTypedList_get_or_create(lists, ListView, list_key, item_key, val)
        IN  /\ lists' = r.store
            /\ last' = Call("list.get_or_create", ListView, list_key, << item_key, val >>, NoArg, r.ret, lists)
            /\ UNCHANGED <<kv, queues, hist, pc, local>>

ListReplace ==
    \E list_key \in ListKeys : \E item_key \in Items : \E val \in Vals(ListView.V) :
    \E exp \in {None} \cup { Some(e) : e \in Vals(ListView.V) } :
        LET r == CandyTypedList_replace(lists, ListView, list_key, item_key, val, exp)
        IN  /\ lists' = r.store
            /\ last' = Call("list.replace", ListView, list_key, << item_key, val >>, exp, r.ret, lists)
            /\ UNCHANGED <<kv, queues, hist, pc, local>>

ListRemove ==
    \E list_key \in ListKeys : \E item_key \in Items :
        LET r == CandyTypedList_remove(lists, ListView, list_key, item_key)
        IN  /\ lists' = r.store
            /\ last' = Call("list.remove", ListView, list_key, item_key, NoArg, r.ret, lists)
            /\ UNCHANGED <<kv, queues, hist, pc, local>>

ListIter ==
    \E list_key \in ListKeys :
        /\ \/ last' = Call("list.iter", ListView, list_key, NoArg, NoArg,
                           CandyTypedList_iter(lists, ListView, list_key), lists)
           \/ last' = Call("list.iter_backwards", ListView, list_key, NoArg, NoArg,
                           CandyTypedList_iter_backwards(lists, ListView, list_key), lists)
           \/ last' = Call("list.len", ListView, list_key, NoArg, NoArg,
                           CandyTypedList_len(lists, ListView, list_key), lists)
        /\ UNCHANGED <<kv, lists, queues, hist, pc, local>>

ListPop ==
    \E list_key \in ListKeys :
        \/ LET r == CandyTypedList_pop_tail(lists, ListView, list_key)
           IN  /\ lists' = r.store
               /\ last' = Call("list.pop_tail", ListView, list_key, NoArg, NoArg, r.ret, lists)
               /\ UNCHANGED <<kv, queues, hist, pc, local>>
        \/ LET r == CandyTypedList_pop_head(lists, ListView, list_key)
           IN  /\ lists' = r.store
               /\ last' = Call("list.pop_head", ListView, list_key, NoArg, NoArg, r.ret, lists)
               /\ UNCHANGED <<kv, queues, hist, pc, local>>

ListPeek ==
    \E list_key \in ListKeys :
        /\ \/ last' = Call("list.peek_tail", ListView, list_key, NoArg, NoArg,
                           CandyTypedList_peek_tail(lists, ListView, list_key), lists)
           \/ last' = Call("list.peek_head", ListView, list_key, NoArg, NoArg,
                           CandyTypedList_peek_head(lists, ListView, list_key), lists)
        /\ UNCHANGED <<kv, lists, queues, hist, pc, local>>

ListRetain ==
    \E list_key \in ListKeys : \E func \in RetainFuncs :
        LET r == CandyTypedList_retain(lists, ListView, list_key, func)
        IN  /\ lists' = r.store
            /\ last' = Call("list.retain", ListView, list_key, func, NoArg, r.ret, lists)
            /\ UNCHANGED <<kv, queues, hist, pc, local>>

ListNext ==
    \/ ListRead
    \/ ListSet
    \/ ListSetPromoting
    \/ ListGetOrCreate
    \/ ListReplace
    \/ ListRemove
    \/ ListIter
    \/ ListPop
    \/ ListPeek
    \/ ListRetain

SpecList == Init /\ [][ListNext]_vars

\* ------------------------------------------------------------- the store's queue primitives
\* A queue is the sequence of its live <<index, value bytes>> entries from head to
\* tail, and the next index.  Both ends draw their indices from that one counter.
NewQueue == [items |-> << >>, next |-> 0]
QueueOf(s, qk) == IF qk \in DOMAIN s THEN s[qk] ELSE NewQueue

push_to_queue_head(s, qk, v) ==
    LET q == QueueOf(s, qk)
    IN  [store |-> Put(s, qk, [items |-> << << q.next, v >> >> \o q.items,
                               next |-> q.next + 1]),
         idx |-> q.next]

push_to_queue_tail(s, qk, v) ==
    LET q == QueueOf(s, qk)
    IN  [store |-> Put(s, qk, [items |-> Append(q.items, << q.next, v >>),
                               next |-> q.next + 1]),
         idx |-> q.next]

pop_queue_head_with_idx(s, qk) ==
    LET q == QueueOf(s, qk)
    IN  IF q.items = << >> THEN [store |-> s, ret |-> None]
        ELSE [store |-> Put(s, qk, [q EXCEPT !.items = Tail(q.items)]),
              ret |-> Some(Head(q.items))]

pop_queue_tail_with_idx(s, qk) ==
    LET q == QueueOf(s, qk)
        n == Len(q.items)
    IN  IF n = 0 THEN [store |-> s, ret |-> None]
        ELSE [store |-> Put(s, qk, [q EXCEPT !.items = SubSeq(q.items, 1, n - 1)]),
              ret |-> Some(q.items[n])]

peek_queue_head_with_idx(s, qk) ==
    LET q == QueueOf(s, qk) IN IF q.items = << >> THEN None ELSE Some(Head(q.items))

peek_queue_tail_with_idx(s, qk) ==
    LET q == QueueOf(s, qk)
    IN  IF q.items = << >> THEN None ELSE Some(q.items[Len(q.items)])

iter_queue(s, qk) ==
    LET q == QueueOf(s, qk) IN [i \in 1..Len(q.items) |-> Ok(q.items[i])]

iter_queue_backwards(s, qk) ==
    LET q == QueueOf(s, qk)
        n == Len(q.items)
    IN  [i \in 1..n |-> Ok(q.items[n + 1 - i])]

queue_len(s, qk) == Len(QueueOf(s, qk).items)

\* <<start, end>>: from the oldest live index to one past the newest; empty for
\* an empty queue.
queue_range(s, qk) ==
    LET q == QueueOf(s, qk)
        live == { q.items[i][1] : i \in 1..Len(q.items) }
    IN  IF live = {} THEN << q.next, q.next >>
        ELSE << CHOOSE i \in live : \A j \in live : i <= j,
                (CHOOSE i \in live : \A j \in live : i >= j) + 1 >>

\* ------------------------------------------------------------- CandyTypedDeque<L, V>
\* A queue view is [L |-> queue identifier type, V |-> value type].
DequeView == [L |-> "u8", V |-> "u32"]
QueueKeys == {0}

\* `Ok(Some((idx, from_bytes::<V>(&v)?)))`
OkSomeIdx(dv, o) ==
    IF ~IsSome(o) THEN None
    ELSE LET d == from_bytes(dv.V, o[2][2])
         IN  IF d = Err THEN Err ELSE Some(<< o[2][1], d[2] >>)

\* `.map(|iv| iv.1)`
DropIdx(r) == IF IsSome(r) THEN Some(r[2][2]) ELSE r

CandyTypedDeque_push_head_untagged(s, dv, queue_key, val) ==
    LET r == push_to_queue_head(s, to_bytes(dv.L, queue_key), to_bytes(dv.V, val))
    IN  [store |-> r.store, ret |-> Ok("unit"), idx |-> r.idx]

CandyTypedDeque_push_head_at_tail(s, dv, queue_key, val) ==
    LET r == push_to_queue_tail(s, make_list_key(dv.L, queue_key), to_bytes(dv.V, val))
    IN  [store |-> r.store, ret |-> Ok("unit"), idx |-> r.idx]

\* idx is the index the store gave the pushed element; the caller gets ret.
CandyTypedDeque_push_head(s, dv, queue_key, val) ==
    LET r == push_to_queue_head(s, make_list_key(dv.L, queue_key), to_bytes(dv.V, val))
    IN  [store |-> r.store, ret |-> Ok("unit"), idx |-> r.idx]

CandyTypedDeque_push_tail(s, dv, queue_key, val) ==
    LET r == push_to_queue_tail(s, make_list_key(dv.L, queue_key), to_bytes(dv.V, val))
    IN  [store |-> r.store, ret |-> Ok("unit"), idx |-> r.idx]

CandyTypedDeque_pop_head_with_idx_peeking(s, dv, queue_key) ==
    [store |-> s,
     ret |-> OkSomeIdx(dv, peek_queue_head_with_idx(s, make_list_key(dv.L, queue_key)))]

CandyTypedDeque_pop_head_with_idx(s, dv, queue_key) ==
    LET r == pop_queue_head_with_idx(s, make_list_key(dv.L, queue_key))
    IN  [store |-> r.store, ret |-> OkSomeIdx(dv, r.ret)]

CandyTypedDeque_pop_head(s, dv, queue_key) ==
    LET r == CandyTypedDeque_pop_head_with_idx(s, dv, queue_key)
    IN  [store |-> r.store, ret |-> DropIdx(r.ret)]

CandyTypedDeque_pop_tail_with_idx(s, dv, queue_key) ==
    LET r == pop_queue_tail_with_idx(s, make_list_key(dv.L, queue_key))
    IN  [store |-> r.store, ret |-> OkSomeIdx(dv, r.ret)]

CandyTypedDeque_pop_tail(s, dv, queue_key) ==
    LET r == CandyTypedDeque_pop_tail_with_idx(s, dv, queue_key)
    IN  [store |-> r.store, ret |-> DropIdx(r.ret)]

CandyTypedDeque_peek_head_with_idx(s, dv, queue_key) ==
    OkSomeIdx(dv, peek_queue_head_with_idx(s, make_list_key(dv.L, queue_key)))

CandyTypedDeque_peek_head(s, dv, queue_key) ==
    DropIdx(CandyTypedDeque_peek_head_with_idx(s, dv, queue_key))

CandyTypedDeque_peek_tail_with_idx(s, dv, queue_key) ==
    OkSomeIdx(dv, peek_queue_tail_with_idx(s, make_list_key(dv.L, queue_key)))

CandyTypedDeque_peek_tail(s, dv, queue_key) ==
    DropIdx(CandyTypedDeque_peek_tail_with_idx(s, dv, queue_key))

\* `Ok((idx, from_bytes::<V>(&v).unwrap()))`: a decode error panics.
CandyTypedDeque_iter(s, dv, queue_key) ==
    LET it == iter_queue(s, make_list_key(dv.L, queue_key))
    IN  [i \in 1..Len(it) |-> LET d == from_bytes(dv.V, it[i][2][2])
                              IN  IF d = Err THEN << "Panic" >>
                                  ELSE Ok(<< it[i][2][1], d[2] >>)]

CandyTypedDeque_iter_backwards(s, dv, queue_key) ==
    LET it == iter_queue_backwards(s, make_list_key(dv.L, queue_key))
    IN  [i \in 1..Len(it) |-> LET d == from_bytes(dv.V, it[i][2][2])
                              IN  IF d = Err THEN << "Panic" >>
                                  ELSE Ok(<< it[i][2][1], d[2] >>)]

CandyTypedDeque_len_untagged(s, dv, queue_key) ==
    Ok(queue_len(s, to_bytes(dv.L, queue_key)))

CandyTypedDeque_len(s, dv, queue_key) ==
    Ok(queue_len(s, make_list_key(dv.L, queue_key)))

CandyTypedDeque_range_untagged(s, dv, queue_key) ==
    Ok(queue_range(s, to_bytes(dv.L, queue_key)))

CandyTypedDeque_range(s, dv, queue_key) ==
    Ok(queue_range(s, make_list_key(dv.L, queue_key)))

\* ------------------------------------------------------------- calls through the queue view
\* The end-to-end example of the queue, as the calls made on a new queue.
Script ==
    << [op |-> "deque.push_tail", val |-> 10],
       [op |-> "deque.push_tail", val |-> 20],
       [op |-> "deque.pop_head_with_idx", val |-> 0],
       [op |-> "deque.push_head", val |-> 5],
       [op |-> "deque.pop_tail_with_idx", val |-> 0] >>
OffScript == Len(Script) + 1
PushOps == {"deque.push_head", "deque.push_tail"}
\* The position in Script after a call that changes the queue.
ScriptStep(pos, op, val) ==
    IF /\ pos < Len(Script)
       /\ Script[pos + 1].op = op
       /\ (op \in PushOps => Script[pos + 1].val = val)
    THEN pos + 1
    ELSE OffScript

Pushed(h, op, val, idx) ==
    [h EXCEPT !.pushed = Append(@, idx), !.script = ScriptStep(@, op, val)]
Popped(h, op, ret) ==
    [h EXCEPT !.pops = IF IsSome(ret) THEN @ + 1 ELSE @, !.script = ScriptStep(@, op, 0)]

DequePushHead ==
    \E queue_key \in QueueKeys : \E val \in Vals(DequeView.V) :
        LET r == CandyTypedDeque_push_head(queues, DequeView, queue_key, val)
        IN  /\ Len(hist.pushed) < MaxPushes
            /\ queues' = r.store
            /\ last' = Call("deque.push_head", DequeView, queue_key, val, NoArg, r.ret, queues)
            /\ hist' = Pushed(hist, "deque.push_head", val, r.idx)
            /\ UNCHANGED <<kv, lists, pc, local>>

DequePushTail ==
    \E queue_key \in QueueKeys : \E val \in Vals(DequeView.V) :
        LET r == CandyTypedDeque_push_tail(queues, DequeView, queue_key, val)
        IN  /\ Len(hist.pushed) < MaxPushes
            /\ queues' = r.store
            /\ last' = Call("deque.push_tail", DequeView, queue_key, val, NoArg, r.ret, queues)
            /\ hist' = Pushed(hist, "deque.push_tail", val, r.idx)
            /\ UNCHANGED <<kv, lists, pc, local>>

DequePopHeadWithIdx ==
    \E queue_key \in QueueKeys :
        LET r == CandyTypedDeque_pop_head_with_idx(queues, DequeView, queue_key)
        IN  /\ queues' = r.store
            /\ last' = Call("deque.pop_head_with_idx", DequeView, queue_key, NoArg, NoArg,
                            r.ret, queues)
            /\ hist' = Popped(hist, "deque.pop_head_with_idx", r.ret)
            /\ UNCHANGED <<kv, lists, pc, local>>

DequePopHead ==
    \E queue_key \in QueueKeys :
        LET r == CandyTypedDeque_pop_head(queues, DequeView, queue_key)
        IN  /\ queues' = r.store
            /\ last' = Call("deque.pop_head", DequeView, queue_key, NoArg, NoArg, r.ret, queues)
            /\ hist' = Popped(hist, "deque.pop_head", r.ret)
            /\ UNCHANGED <<kv, lists, pc, local>>

DequePopTailWithIdx ==
    \E queue_key \in QueueKeys :
        LET r == CandyTypedDeque_pop_tail_with_idx(queues, DequeView, queue_key)
        IN  /\ queues' = r.store
            /\ last' = Call("deque.pop_tail_with_idx", DequeView, queue_key, NoArg, NoArg,
                            r.ret, queues)
            /\ hist' = Popped(hist, "deque.pop_tail_with_idx", r.ret)
            /\ UNCHANGED <<kv, lists, pc, local>>

DequePopTail ==
    \E queue_key \in QueueKeys :
        LET r == CandyTypedDeque_pop_tail(queues, DequeView, queue_key)
        IN  /\ queues' = r.store
            /\ last' = Call("deque.pop_tail", DequeView, queue_key, NoArg, NoArg, r.ret, queues)
            /\ hist' = Popped(hist, "deque.pop_tail", r.ret)
            /\ UNCHANGED <<kv, lists, pc, local>>

DequePeek ==
    \E queue_key \in QueueKeys :
        /\ \/ last' = Call("deque.peek_head_with_idx", DequeView, queue_key, NoArg, NoArg,
                           CandyTypedDeque_peek_head_with_idx(queues, DequeView, queue_key),
                           queues)
           \/ last' = Call("deque.peek_head", DequeView, queue_key, NoArg, NoArg,
                           CandyTypedDeque_peek_head(queues, DequeView, queue_key), queues)
           \/ last' = Call("deque.peek_tail_with_idx", DequeView, queue_key, NoArg, NoArg,
                           CandyTypedDeque_peek_tail_with_idx(queues, DequeView, queue_key),
                           queues)
           \/ last' = Call("deque.peek_tail", DequeView, queue_key, NoArg, NoArg,
                           CandyTypedDeque_peek_tail(queues, DequeView, queue_key), queues)
        /\ UNCHANGED <<kv, lists, queues, hist, pc, local>>

DequeIter ==
    \E queue_key \in QueueKeys :
        /\ \/ last' = Call("deque.iter", DequeView, queue_key, NoArg, NoArg,
                           CandyTypedDeque_iter(queues, DequeView, queue_key), queues)
           \/ last' = Call("deque.iter_backwards", DequeView, queue_key, NoArg, NoArg,
                           CandyTypedDeque_iter_backwards(queues, DequeView, queue_key), queues)
        /\ UNCHANGED <<kv, lists, queues, hist, pc, local>>

DequeLenRange ==
    \E queue_key \in QueueKeys :
        /\ \/ last' = Call("deque.len", DequeView, queue_key, NoArg, NoArg,
                           CandyTypedDeque_len(queues, DequeView, queue_key), queues)
           \/ last' = Call("deque.range", DequeView, queue_key, NoArg, NoArg,
                           CandyTypedDeque_range(queues, DequeView, queue_key), queues)
        /\ UNCHANGED <<kv, lists, queues, hist, pc, local>>

DequeNext ==
    \/ DequePushHead
    \/ DequePushTail
    \/ DequePopHeadWithIdx
    \/ DequePopHead
    \/ DequePopTailWithIdx
    \/ DequePopTail
    \/ DequePeek
    \/ DequeIter
    \/ DequeLenRange

SpecDeque == Init /\ [][DequeNext]_vars

\* ------------------------------------------------------------- concurrent get_or_create
\* Each caller makes one call of CandyTypedStore::get_or_create: the store's
\* get_or_create_raw is one atomic step, the caller then decodes and returns.
Procs == 1..NumCallers
GocView == [K |-> "bool", V |-> "u16"]
\* The stores the callers may start from: empty, or holding one key set earlier.
GocStores ==
    {Empty} \cup { CandyTypedStore_set(Empty, GocView, k, v).store :
                       k \in Keys(GocView.K), v \in Vals(GocView.V) }

InitGoc ==
    /\ kv \in GocStores
    /\ lists = Empty
    /\ queues = Empty
    /\ last = Call("new", NoArg, NoArg, NoArg, NoArg, NoArg, Empty)
    /\ hist = [pushed |-> << >>, pops |-> 0, script |-> 0, kv0 |-> kv]
    /\ pc = [p \in Procs |-> "ready"]
    /\ local = [p \in Procs |-> [key |-> 0, default |-> 0, inserted |-> FALSE, ret |-> NoArg]]

GocCall(p) ==
    /\ pc[p] = "ready"
    /\ \E key \in Keys(GocView.K) : \E default_val \in Vals(GocView.V) :
           LET r == CandyTypedStore_get_or_create(kv, GocView, key, default_val)
           IN  /\ kv' = r.store
               /\ local' = [local EXCEPT ![p] = [key |-> key, default |-> default_val,
                                                 inserted |-> r.store # kv, ret |-> r.ret]]
    /\ pc' = [pc EXCEPT ![p] = "called"]
    /\ UNCHANGED <<lists, queues, last, hist>>

GocReturn(p) ==
    /\ pc[p] = "called"
    /\ pc' = [pc EXCEPT ![p] = "done"]
    /\ UNCHANGED <<kv, lists, queues, last, hist, local>>

GocNext == \E p \in Procs : GocCall(p) \/ GocReturn(p)

SpecGoc == InitGoc /\ [][GocNext]_vars

\* ------------------------------------------------------------- claims about the map
\* In every state, last is the call that produced the state and last.pre is the
\* store that call found, so a property of (last.pre, last, store) in every
\* reachable state is a property of every call.
MapOps == {"map.contains", "map.get", "map.replace", "map.set", "map.get_or_create",
           "map.remove"}

\* C1 (tag disjointness): a call through one map view leaves get and contains
\* through every view whose key type has a different TYPE_ID as they were, for
\* every key, also for keys whose serialized bytes are the same in both key types.
C1_TagDisjointness ==
    (last.op \in MapOps) =>
        \A other \in MapViews :
            TYPE_ID(other.K) # TYPE_ID(last.view.K) =>
                \A k \in Keys(other.K) :
                    /\ CandyTypedStore_get(kv, other, k) = CandyTypedStore_get(last.pre, other, k)
                    /\ CandyTypedStore_contains(kv, other, k)
                          = CandyTypedStore_contains(last.pre, other, k)

\* The u8 view has written key 0, whose bytes are those of the bool key false,
\* and the bool view still sees no entry for false.
C1_Witness ==
    /\ last.op = "map.set"
    /\ last.view.K = "u8"
    /\ last.key = 0
    /\ to_bytes("u8", 0) = to_bytes("bool", 0)
    /\ CandyTypedStore_contains(kv, [K |-> "u8", V |-> "u8"], 0) = << "True" >>
    /\ CandyTypedStore_get(kv, [K |-> "bool", V |-> "u16"], 0) = None

\* C2 (compare-and-swap): replace(k, v2, Some(v1)) writes v2 and returns the old
\* value exactly when the bytes stored under k at call time are the encoding of
\* v1; otherwise the store is unchanged and the result is None.
C2_ReplaceCAS ==
    (last.op = "map.replace" /\ IsSome(last.exp)) =>
        LET mv == last.view
            kbytes == make_key(mv.K, last.key)
            v1 == last.exp[2]
            v2 == last.val
            matches == kbytes \in DOMAIN last.pre /\ last.pre[kbytes] = to_bytes(mv.V, v1)
        IN  IF matches
            THEN /\ kv = Put(last.pre, kbytes, to_bytes(mv.V, v2))
                 /\ last.ret = Some(v1)
            ELSE /\ kv = last.pre
                 /\ last.ret = None

\* A replace with a matching expected value has written a different new value.
C2_Witness ==
    /\ last.op = "map.replace"
    /\ IsSome(last.exp)
    /\ last.ret = last.exp
    /\ last.val # last.exp[2]
    /\ CandyTypedStore_get(kv, last.view, last.key) = Some(last.val)

\* ------------------------------------------------------------- claims about the queue
PopOps == {"deque.pop_head_with_idx", "deque.pop_head", "deque.pop_tail_with_idx",
           "deque.pop_tail"}
Range(seq) == { seq[i] : i \in 1..Len(seq) }
\* The indices of the live elements, as iter yields them.
LiveIdx(s, queue_key) ==
    LET it == CandyTypedDeque_iter(s, DequeView, queue_key)
    IN  { it[i][2][1] : i \in 1..Len(it) }

\* C3 (index monotonicity): the indices given to the pushes of a queue, at either
\* end and whatever pops came between, are strictly increasing in push order, so
\* none is given twice; the pushed element is found under the index it was
\* given, and a pop returns an index that was given to a push.
C3_IndexMonotonic ==
    /\ \A i, j \in 1..Len(hist.pushed) : i < j => hist.pushed[i] < hist.pushed[j]
    /\ last.op = "deque.push_head" =>
           CandyTypedDeque_peek_head_with_idx(queues, DequeView, last.key)
              = Some(<< hist.pushed[Len(hist.pushed)], last.val >>)
    /\ last.op = "deque.push_tail" =>
           CandyTypedDeque_peek_tail_with_idx(queues, DequeView, last.key)
              = Some(<< hist.pushed[Len(hist.pushed)], last.val >>)
    /\ (last.op \in {"deque.pop_head_with_idx", "deque.pop_tail_with_idx"} /\ IsSome(last.ret))
           => last.ret[2][1] \in Range(hist.pushed)

\* A push at the head after a push at the tail and a pop got a third index.
C3_Witness ==
    /\ last.op = "deque.push_head"
    /\ hist.pops >= 1
    /\ Len(hist.pushed) = 3
    /\ CandyTypedDeque_peek_head_with_idx(queues, DequeView, last.key)
          = Some(<< 2, last.val >>)

\* C4 as claimed: range(queue) holds exactly the indices of the live elements.
C4_RangeExactlyLive ==
    \A queue_key \in QueueKeys :
        LET r == CandyTypedDeque_range(queues, DequeView, queue_key)
        IN  LiveIdx(queues, queue_key) = { i \in r[2][1]..r[2][2] : i < r[2][2] }

\* C4 (range), amended: range(queue) is the half-open interval from the smallest
\* live index to one past the largest live index, empty for an empty queue; it
\* holds the index of every live element.  (An index in it may be that of an
\* element popped earlier.)
C4_RangeCoversLive ==
    \A queue_key \in QueueKeys :
        LET r == CandyTypedDeque_range(queues, DequeView, queue_key)
            live == LiveIdx(queues, queue_key)
        IN  /\ r[1] = "Ok"
            /\ r[2][1] <= r[2][2]
            /\ live \subseteq { i \in r[2][1]..r[2][2] : i < r[2][2] }
            /\ live = {} => r[2][1] = r[2][2]
            /\ live # {} => r[2][1] \in live /\ \E i \in live : i + 1 = r[2][2]

\* The live indices are 0 and 2 and the range is [0, 3): index 1 was popped.
C4_Witness ==
    \E queue_key \in QueueKeys :
        /\ LiveIdx(queues, queue_key) = {0, 2}
        /\ CandyTypedDeque_range(queues, DequeView, queue_key) = Ok(<< 0, 3 >>)
        /\ hist.pops = 1

\* C5 (length): len(queue) is the number of pushes minus the number of pops that
\* returned an element; a pop on an empty queue returns None and leaves len 0.
C5_Len ==
    \A queue_key \in QueueKeys :
        /\ CandyTypedDeque_len(queues, DequeView, queue_key)[1] = "Ok"
        /\ CandyTypedDeque_len(queues, DequeView, queue_key)[2] + hist.pops = Len(hist.pushed)
        /\ (/\ last.op \in PopOps
            /\ CandyTypedDeque_len(last.pre, DequeView, queue_key) = Ok(0))
           => /\ last.ret = None
              /\ CandyTypedDeque_len(queues, DequeView, queue_key) = Ok(0)

\* Three pushes and two pops that returned an element leave one element.
C5_Witness ==
    /\ Len(hist.pushed) = 3
    /\ hist.pops = 2
    /\ last.op \in PopOps
    /\ \A queue_key \in QueueKeys : CandyTypedDeque_len(queues, DequeView, queue_key) = Ok(1)

\* C6 (end-to-end example): on a new queue push_tail(10), push_tail(20), then
\* pop_head_with_idx returns (0, 10); push_head(5) stores 5 under index 2;
\* pop_tail_with_idx returns (1, 20); then len is 1 and range is [2, 3).
C6_Example ==
    \A queue_key \in QueueKeys :
        /\ (hist.script = 3 /\ last.op = "deque.pop_head_with_idx")
               => last.ret = Some(<< 0, 10 >>)
        /\ hist.script = 4
               => /\ CandyTypedDeque_peek_head_with_idx(queues, DequeView, queue_key)
                        = Some(<< 2, 5 >>)
                  /\ CandyTypedDeque_iter(queues, DequeView, queue_key)
                        = << Ok(<< 2, 5 >>), Ok(<< 1, 20 >>) >>
        /\ (hist.script = 5 /\ last.op = "deque.pop_tail_with_idx")
               => last.ret = Some(<< 1, 20 >>)
        /\ hist.script = 5
               => /\ CandyTypedDeque_len(queues, DequeView, queue_key) = Ok(1)
                  /\ CandyTypedDeque_range(queues, DequeView, queue_key) = Ok(<< 2, 3 >>)

\* The five calls of the example have been made.
C6_Witness ==
    /\ hist.script = 5
    /\ last.op = "deque.pop_tail_with_idx"
    /\ hist.pushed = << 0, 1, 2 >>

\* ------------------------------------------------------------- claims about the list
\* The item keys, in the order a forward traversal yields them.
IterKeys(s, list_key) ==
    LET it == CandyTypedList_iter(s, ListView, list_key)
    IN  [i \in 1..Len(it) |-> it[i][2][1]]
Restrict(seq, S) == LET In(x) == x \in S IN SelectSeq(seq, In)

\* C7 (insertion order): a new list is empty, and set(list, k, v) with an item key
\* k that is not in the list adds (k, v) after everything iter yielded before;
\* iter_backwards yields the reverse of iter.  So sets of distinct new keys
\* k_1..k_n are iterated in that order, and backwards in the reverse order.
C7_InsertionOrder ==
    /\ last.op = "new" =>
           \A list_key \in ListKeys :
               /\ CandyTypedList_iter(lists, ListView, list_key) = << >>
               /\ CandyTypedList_iter_backwards(lists, ListView, list_key) = << >>
    /\ (/\ last.op = "list.set"
        /\ CandyTypedList_contains(last.pre, ListView, last.key, last.val[1]) = << "False" >>)
       => LET fwd == CandyTypedList_iter(last.pre, ListView, last.key)
              fwd2 == CandyTypedList_iter(lists, ListView, last.key)
              bwd == CandyTypedList_iter_backwards(last.pre, ListView, last.key)
              bwd2 == CandyTypedList_iter_backwards(lists, ListView, last.key)
          IN  /\ fwd2 = Append(fwd, Ok(last.val))
              /\ bwd2 = << Ok(last.val) >> \o bwd
              /\ bwd2 = Reverse(fwd2)

\* Items 0, 1, 2 are iterated in that order after set put 2 into the list.
C7_Witness ==
    /\ last.op = "list.set"
    /\ last.ret = None
    /\ last.val[1] = 2
    /\ IterKeys(lists, last.key) = << 0, 1, 2 >>
    /\ CandyTypedList_iter_backwards(lists, ListView, last.key)[1] = Ok(last.val)

\* C8 (promotion): set_promoting(list, k, v) on an item key already in the list
\* sets its value and moves it to the tail: iter yields the other items in their
\* previous relative order, then (k, v); iter_backwards yields the reverse.
C8_Promotion ==
    (/\ last.op = "list.set_promoting"
     /\ CandyTypedList_contains(last.pre, ListView, last.key, last.val[1]) = << "True" >>)
    => LET k == last.val[1]
           fwd == CandyTypedList_iter(last.pre, ListView, last.key)
           fwd2 == CandyTypedList_iter(lists, ListView, last.key)
           Others(e) == e[2][1] # k
       IN  /\ fwd2 = Append(SelectSeq(fwd, Others), Ok(last.val))
           /\ CandyTypedList_iter_backwards(lists, ListView, last.key) = Reverse(fwd2)
           /\ last.ret = CandyTypedList_get(last.pre, ListView, last.key, k)

\* The list was 0, 1, 2; set_promoting on 0 made it 1, 2, 0 (backwards 0, 2, 1).
C8_Witness ==
    /\ last.op = "list.set_promoting"
    /\ IsSome(last.ret)
    /\ last.val[1] = 0
    /\ IterKeys(last.pre, last.key) = << 0, 1, 2 >>
    /\ IterKeys(lists, last.key) = << 1, 2, 0 >>
    /\ CandyTypedList_iter_backwards(lists, ListView, last.key)[1] = Ok(last.val)

ListOps == {"list.contains", "list.get", "list.set", "list.set_promoting",
            "list.get_or_create", "list.replace", "list.remove", "list.iter",
            "list.iter_backwards", "list.len", "list.pop_tail", "list.pop_head",
            "list.peek_tail", "list.peek_head", "list.retain"}

\* C9 (order preservation): an operation other than set_promoting leaves the
\* elements it does not remove in their relative order, and set on an existing
\* item key changes that item's value and nothing else.
C9_OrderPreserved ==
    (last.op \in ListOps \ {"list.set_promoting"})
    => LET before == IterKeys(last.pre, last.key)
           after == IterKeys(lists, last.key)
       IN  /\ Restrict(before, Range(after)) = Restrict(after, Range(before))
           /\ (/\ last.op = "list.set"
               /\ CandyTypedList_contains(last.pre, ListView, last.key, last.val[1])
                     = << "True" >>)
              => /\ after = before
                 /\ CandyTypedList_get(lists, ListView, last.key, last.val[1])
                       = Some(last.val[2])
                 /\ \A k \in Range(before) \ {last.val[1]} :
                        CandyTypedList_get(lists, ListView, last.key, k)
                           = CandyTypedList_get(last.pre, ListView, last.key, k)

\* set has changed the value of the first of three items, which is still first.
C9_Witness ==
    /\ last.op = "list.set"
    /\ IsSome(last.ret)
    /\ last.ret # Some(last.val[2])
    /\ Len(IterKeys(lists, last.key)) = 3
    /\ IterKeys(lists, last.key)[1] = last.val[1]

\* ------------------------------------------------------------- claims about concurrent callers
\* C10 (get_or_create, concurrent callers): for a key that was absent exactly one
\* call inserts its default, every caller of that key returns the inserted value
\* and the store holds it; for a key that was present no call inserts, every
\* caller returns the stored value and the store still holds it.
C10_GetOrCreateOnce ==
    \A k \in Keys(GocView.K) :
        LET kbytes == make_key(GocView.K, k)
            callers == { p \in Procs : pc[p] # "ready" /\ local[p].key = k }
            creators == { p \in callers : local[p].inserted }
        IN  IF kbytes \in DOMAIN hist.kv0
            THEN /\ creators = {}
                 /\ kv[kbytes] = hist.kv0[kbytes]
                 /\ \A p \in callers :
                        pc[p] = "done" => local[p].ret = from_bytes(GocView.V, hist.kv0[kbytes])
            ELSE callers # {} =>
                 /\ Cardinality(creators) = 1
                 /\ \A c \in creators :
                        /\ kv[kbytes] = to_bytes(GocView.V, local[c].default)
                        /\ \A p \in callers :
                               pc[p] = "done" => local[p].ret = Ok(local[c].default)

\* Two callers with different defaults have returned for a key that was absent.
C10_Witness ==
    /\ \A p \in Procs : pc[p] = "done" /\ local[p].key = local[1].key
    /\ make_key(GocView.K, local[1].key) \notin DOMAIN hist.kv0
    /\ \E p \in Procs : local[p].default # local[1].default

\* ------------------------------------------------------------- views that share a key type
\* CandyTypedStore<bool, bool> and CandyTypedStore<bool, u16> compose the same
\* byte key for the same key value (make_key takes K, not V);
\* CandyTypedStore<u8, bool> has another key type.
SharedKeyViews ==
    { [K |-> "bool", V |-> "bool"], [K |-> "bool", V |-> "u16"], [K |-> "u8", V |-> "bool"] }

MapContainsVia(views) ==
    \E mv \in views : \E key \in Keys(mv.K) :
        /\ last' = Call("map.contains", mv, key, NoArg, NoArg, CandyTypedStore_contains(kv, mv, key), kv)
        /\ UNCHANGED <<kv, lists, queues, hist, pc, local>>

MapGetVia(views) ==
    \E mv \in views : \E key \in Keys(mv.K) :
        /\ last' = Call("map.get", mv, key, NoArg, NoArg, CandyTypedStore_get(kv, mv, key), kv)
        /\ UNCHANGED <<kv, lists, queues, hist, pc, local>>

MapReplaceVia(views) ==
    \E mv \in views : \E key \in Keys(mv.K) : \E val \in Vals(mv.V) :
    \E exp \in {None} \cup { Some(e) : e \in Vals(mv.V) } :
        LET r == CandyTypedStore_replace(kv, mv, key, val, exp)
        IN  /\ kv' = r.store
            /\ last' = Call("map.replace", mv, key, val, exp, r.ret, kv)
            /\ UNCHANGED <<lists, queues, hist, pc, local>>

MapSetVia(views) ==
    \E mv \in views : \E key \in Keys(mv.K) : \E val \in Vals(mv.V) :
        LET r == CandyTypedStore_set(kv, mv, key, val)
        IN  /\ kv' = r.store
            /\ last' = Call("map.set", mv, key, val, NoArg, r.ret, kv)
            /\ UNCHANGED <<lists, queues, hist, pc, local>>

MapGetOrCreateVia(views) ==
    \E mv \in views : \E key \in Keys(mv.K) : \E val \in Vals(mv.V) :
        LET r == CandyTypedStore_get_or_create(kv, mv, key, val)
        IN  /\ kv' = r.store
            /\ last' = Call("map.get_or_create", mv, key, val, NoArg, r.ret, kv)
            /\ UNCHANGED <<lists, queues, hist, pc, local>>

MapRemoveVia(views) ==
    \E mv \in views : \E key \in Keys(mv.K) :
        LET r == CandyTypedStore_remove(kv, mv, key)
        IN  /\ kv' = r.store
            /\ last' = Call("map.remove", mv, key, NoArg, NoArg, r.ret, kv)
            /\ UNCHANGED <<lists, queues, hist, pc, local>>

MapViewsNext ==
    \/ MapContainsVia(SharedKeyViews)
    \/ MapGetVia(SharedKeyViews)
    \/ MapReplaceVia(SharedKeyViews)
    \/ MapSetVia(SharedKeyViews)
    \/ MapGetOrCreateVia(SharedKeyViews)
    \/ MapRemoveVia(SharedKeyViews)

SpecMapViews == Init /\ [][MapViewsNext]_vars

\* ------------------------------------------------------------- claims about views that share a key type
\* C17 (contains is an existence test): contains(k) through a view is true
\* exactly when the store holds bytes under k's composite key, whatever the
\* bytes are; it is never a decode error, also where get(k) through the same
\* view is one; and it leaves the store as it was.
C17_ContainsExistence ==
    /\ \A mv \in SharedKeyViews : \A k \in Keys(mv.K) :
           CandyTypedStore_contains(kv, mv, k)
              = IF make_key(mv.K, k) \in DOMAIN kv THEN << "True" >> ELSE << "False" >>
    /\ last.op = "map.contains" =>
           /\ last.ret = IF make_key(last.view.K, last.key) \in DOMAIN last.pre
                         THEN << "True" >> ELSE << "False" >>
           /\ kv = last.pre

\* contains has returned true for a key whose bytes, written through the view
\* with the one-byte value type, do not decode as u16: get returns the error.
C17_Witness ==
    /\ last.op = "map.contains"
    /\ last.view = [K |-> "bool", V |-> "u16"]
    /\ last.ret = << "True" >>
    /\ CandyTypedStore_get(kv, last.view, last.key) = Err

\* C16 as claimed: two views for different combinations of types (another key
\* type, or the same key type with another value type) compose different byte
\* keys, and a call through one leaves every read through the other as it was.
C16_ViewsDisjoint ==
    (last.op \in MapOps) =>
        \A other \in SharedKeyViews \ {last.view} :
            /\ \A k \in Keys(other.K) : \A k2 \in Keys(last.view.K) :
                   make_key(other.K, k) # make_key(last.view.K, k2)
            /\ \A k \in Keys(other.K) :
                   /\ CandyTypedStore_get(kv, other, k) = CandyTypedStore_get(last.pre, other, k)
                   /\ CandyTypedStore_contains(kv, other, k)
                         = CandyTypedStore_contains(last.pre, other, k)

\* C16 (coexistence of typed map views), amended: views whose key types have
\* different TYPE_IDs compose different byte keys and a call through one leaves
\* every read through the other as it was.  Views with the same key type and
\* different value types compose the same byte key for the same key value:
\* they see the same entries, contains agrees through both, and what one has
\* written the other reads as its bytes decoded as the reader's value type or
\* as a decode error.
C16_KeyTypeSeparatesViews ==
    (last.op \in MapOps) =>
        \A other \in SharedKeyViews \ {last.view} :
            IF TYPE_ID(other.K) # TYPE_ID(last.view.K)
            THEN /\ \A k \in Keys(other.K) : \A k2 \in Keys(last.view.K) :
                        make_key(other.K, k) # make_key(last.view.K, k2)
                 /\ \A k \in Keys(other.K) :
                        /\ CandyTypedStore_get(kv, other, k)
                              = CandyTypedStore_get(last.pre, other, k)
                        /\ CandyTypedStore_contains(kv, other, k)
                              = CandyTypedStore_contains(last.pre, other, k)
            ELSE /\ \A k \in Keys(other.K) :
                        /\ make_key(other.K, k) = make_key(last.view.K, k)
                        /\ CandyTypedStore_contains(kv, other, k)
                              = CandyTypedStore_contains(kv, last.view, k)
                 /\ last.op = "map.set" =>
                        CandyTypedStore_get(kv, other, last.key)
                           = OkSomeDecoded(other.V, to_bytes(last.view.V, last.val))

\* The bool/bool view has set a key that was absent; the bool/u16 view now
\* finds an entry under that key and fails to decode it, and the u8/bool view
\* still sees no entry for the key 0, whose bytes are those of false.
C16_Witness ==
    /\ last.op = "map.set"
    /\ last.view = [K |-> "bool", V |-> "bool"]
    /\ last.key = 0
    /\ CandyTypedStore_get(last.pre, [K |-> "bool", V |-> "u16"], 0) = None
    /\ CandyTypedStore_get(kv, [K |-> "bool", V |-> "u16"], 0) = Err
    /\ CandyTypedStore_contains(kv, [K |-> "bool", V |-> "u16"], 0) = << "True" >>
    /\ CandyTypedStore_get(kv, [K |-> "u8", V |-> "bool"], 0) = None

\* ------------------------------------------------------------- queue views that share a queue
\* CandyTypedDeque<u8, bool> and CandyTypedDeque<u8, u16> compose the same queue
\* key for the same queue identifier, so each finds the elements the other pushed.
SharedQueueViews == { [L |-> "u8", V |-> "bool"], [L |-> "u8", V |-> "u16"] }

DequePushHeadVia(views) ==
    \E dv \in views : \E queue_key \in QueueKeys : \E val \in Vals(dv.V) :
        LET r == CandyTypedDeque_push_head(queues, dv, queue_key, val)
        IN  /\ Len(hist.pushed) < MaxPushes
            /\ queues' = r.store
            /\ last' = Call("deque.push_head", dv, queue_key, val, NoArg, r.ret, queues)
            /\ hist' = Pushed(hist, "deque.push_head", val, r.idx)
            /\ UNCHANGED <<kv, lists, pc, local>>

DequePushTailVia(views) ==
    \E dv \in views : \E queue_key \in QueueKeys : \E val \in Vals(dv.V) :
        LET r == CandyTypedDeque_push_tail(queues, dv, queue_key, val)
        IN  /\ Len(hist.pushed) < MaxPushes
            /\ queues' = r.store
            /\ last' = Call("deque.push_tail", dv, queue_key, val, NoArg, r.ret, queues)
            /\ hist' = Pushed(hist, "deque.push_tail", val, r.idx)
            /\ UNCHANGED <<kv, lists, pc, local>>

DequePopHeadWithIdxVia(views) ==
    \E dv \in views : \E queue_key \in QueueKeys :
        LET r == CandyTypedDeque_pop_head_with_idx(queues, dv, queue_key)
        IN  /\ queues' = r.store
            /\ last' = Call("deque.pop_head_with_idx", dv, queue_key, NoArg, NoArg,
                            r.ret, queues)
            /\ hist' = Popped(hist, "deque.pop_head_with_idx", r.ret)
            /\ UNCHANGED <<kv, lists, pc, local>>

DequePopHeadVia(views) ==
    \E dv \in views : \E queue_key \in QueueKeys :
        LET r == CandyTypedDeque_pop_head(queues, dv, queue_key)
        IN  /\ queues' = r.store
            /\ last' = Call("deque.pop_head", dv, queue_key, NoArg, NoArg, r.ret, queues)
            /\ hist' = Popped(hist, "deque.pop_head", r.ret)
            /\ UNCHANGED <<kv, lists, pc, local>>

DequePopTailWithIdxVia(views) ==
    \E dv \in views : \E queue_key \in QueueKeys :
        LET r == CandyTypedDeque_pop_tail_with_idx(queues, dv, queue_key)
        IN  /\ queues' = r.store
            /\ last' = Call("deque.pop_tail_with_idx", dv, queue_key, NoArg, NoArg,
                            r.ret, queues)
            /\ hist' = Popped(hist, "deque.pop_tail_with_idx", r.ret)
            /\ UNCHANGED <<kv, lists, pc, local>>

DequePopTailVia(views) ==
    \E dv \in views : \E queue_key \in QueueKeys :
        LET r == CandyTypedDeque_pop_tail(queues, dv, queue_key)
        IN  /\ queues' = r.store
            /\ last' = Call("deque.pop_tail", dv, queue_key, NoArg, NoArg, r.ret, queues)
            /\ hist' = Popped(hist, "deque.pop_tail", r.ret)
            /\ UNCHANGED <<kv, lists, pc, local>>

DequePeekVia(views) ==
    \E dv \in views : \E queue_key \in QueueKeys :
        /\ \/ last' = Call("deque.peek_head_with_idx", dv, queue_key, NoArg, NoArg,
                           CandyTypedDeque_peek_head_with_idx(queues, dv, queue_key),
                           queues)
           \/ last' = Call("deque.peek_head", dv, queue_key, NoArg, NoArg,
                           CandyTypedDeque_peek_head(queues, dv, queue_key), queues)
           \/ last' = Call("deque.peek_tail_with_idx", dv, queue_key, NoArg, NoArg,
                           CandyTypedDeque_peek_tail_with_idx(queues, dv, queue_key),
                           queues)
           \/ last' = Call("deque.peek_tail", dv, queue_key, NoArg, NoArg,
                           CandyTypedDeque_peek_tail(queues, dv, queue_key), queues)
        /\ UNCHANGED <<kv, lists, queues, hist, pc, local>>

DequeIterVia(views) ==
    \E dv \in views : \E queue_key \in QueueKeys :
        /\ \/ last' = Call("deque.iter", dv, queue_key, NoArg, NoArg,
                           CandyTypedDeque_iter(queues, dv, queue_key), queues)
           \/ last' = Call("deque.iter_backwards", dv, queue_key, NoArg, NoArg,
                           CandyTypedDeque_iter_backwards(queues, dv, queue_key), queues)
        /\ UNCHANGED <<kv, lists, queues, hist, pc, local>>

DequeLenRangeVia(views) ==
    \E dv \in views : \E queue_key \in QueueKeys :
        /\ \/ last' = Call("deque.len", dv, queue_key, NoArg, NoArg,
                           CandyTypedDeque_len(queues, dv, queue_key), queues)
           \/ last' = Call("deque.range", dv, queue_key, NoArg, NoArg,
                           CandyTypedDeque_range(queues, dv, queue_key), queues)
        /\ UNCHANGED <<kv, lists, queues, hist, pc, local>>

DequeViewsNext ==
    \/ DequePushHeadVia(SharedQueueViews)
    \/ DequePushTailVia(SharedQueueViews)
    \/ DequePopHeadWithIdxVia(SharedQueueViews)
    \/ DequePopHeadVia(SharedQueueViews)
    \/ DequePopTailWithIdxVia(SharedQueueViews)
    \/ DequePopTailVia(SharedQueueViews)
    \/ DequePeekVia(SharedQueueViews)
    \/ DequeIterVia(SharedQueueViews)
    \/ DequeLenRangeVia(SharedQueueViews)

SpecDequeViews == Init /\ [][DequeViewsNext]_vars

\* ------------------------------------------------------------- claims about decode errors
\* C11 (decode errors are reported): whenever the bytes a call reads from the
\* store do not decode as the view's value type, what the caller gets for that
\* call (for a traversal: for that element) is the error result, for the calls
\* of the map, the list and the queue that read stored bytes, iter and
\* iter_backwards of the queue among them.
C11_DecodeErrorsReported ==
    /\ last.op \in {"map.get", "map.set", "map.get_or_create", "map.remove"} =>
           LET kbytes == make_key(last.view.K, last.key)
           IN  (kbytes \in DOMAIN last.pre /\ from_bytes(last.view.V, last.pre[kbytes]) = Err)
                   => last.ret = Err
    /\ last.op \in {"list.get", "list.remove"} =>
           LET g == owned_get_from_list(last.pre, make_list_key(last.view.L, last.key),
                                        to_bytes(last.view.K, last.val))
           IN  (IsSome(g) /\ from_bytes(last.view.V, g[2]) = Err) => last.ret = Err
    /\ last.op = "list.iter" =>
           LET it == owned_iter_list(last.pre, make_list_key(last.view.L, last.key))
           IN  \A i \in 1..Len(it) : DecodedPair(last.view, it[i][2]) = Err => last.ret[i] = Err
    /\ last.op = "list.iter_backwards" =>
           LET it == owned_iter_list_backwards(last.pre, make_list_key(last.view.L, last.key))
           IN  \A i \in 1..Len(it) : DecodedPair(last.view, it[i][2]) = Err => last.ret[i] = Err
    /\ last.op \in {"deque.pop_head_with_idx", "deque.pop_head", "deque.peek_head_with_idx",
                    "deque.peek_head"} =>
           LET p == peek_queue_head_with_idx(last.pre, make_list_key(last.view.L, last.key))
           IN  (IsSome(p) /\ from_bytes(last.view.V, p[2][2]) = Err) => last.ret = Err
    /\ last.op \in {"deque.pop_tail_with_idx", "deque.pop_tail", "deque.peek_tail_with_idx",
                    "deque.peek_tail"} =>
           LET p == peek_queue_tail_with_idx(last.pre, make_list_key(last.view.L, last.key))
           IN  (IsSome(p) /\ from_bytes(last.view.V, p[2][2]) = Err) => last.ret = Err
    /\ last.op = "deque.iter" =>
           LET it == iter_queue(last.pre, make_list_key(last.view.L, last.key))
           IN  \A i \in 1..Len(it) :
                   from_bytes(last.view.V, it[i][2][2]) = Err => last.ret[i] = Err
    /\ last.op = "deque.iter_backwards" =>
           LET it == iter_queue_backwards(last.pre, make_list_key(last.view.L, last.key))
           IN  \A i \in 1..Len(it) :
                   from_bytes(last.view.V, it[i][2][2]) = Err => last.ret[i] = Err

\* iter through the u16 view has reached an element pushed through the bool
\* view: peek_head returns the decode error for it, iter panics on it.
C11_Witness ==
    /\ last.op = "deque.iter"
    /\ last.view = [L |-> "u8", V |-> "u16"]
    /\ Len(last.ret) >= 1
    /\ last.ret[1] = << "Panic" >>
    /\ CandyTypedDeque_peek_head(queues, last.view, last.key) = Err

\* ------------------------------------------------------------- list views that share a list
\* CandyTypedList<u8, u8, bool> and CandyTypedList<u8, u8, u16> compose the same
\* list key and the same item keys; the values one has written are one byte
\* long, those of the other two bytes.
SharedListViews == { [L |-> "u8", K |-> "u8", V |-> "bool"], [L |-> "u8", K |-> "u8", V |-> "u16"] }
RetainItems == {0, 1, 2}
\* The predicates tried on a view: as RetainFuncs, the failing key may be none
\* of the item keys.
RetainFuncsOf(lv) == [drop : Vals(lv.V), fail : RetainItems \cup {Cardinality(RetainItems)}]

ListSetVia(views, items) ==
    \E lv \in views : \E list_key \in ListKeys : \E item_key \in items : \E val \in Vals(lv.V) :
        LET r == CandyTypedList_set(lists, lv, list_key, item_key, val)
        IN  /\ lists' = r.store
            /\ last' = Call("list.set", lv, list_key, << item_key, val >>, NoArg, r.ret, lists)
            /\ UNCHANGED <<kv, queues, hist, pc, local>>

ListRetainVia(views) ==
    \E lv \in views : \E list_key \in ListKeys : \E func \in RetainFuncsOf(lv) :
        LET r == CandyTypedList_retain(lists, lv, list_key, func)
        IN  /\ lists' = r.store
            /\ last' = Call("list.retain", lv, list_key, func, NoArg, r.ret, lists)
            /\ UNCHANGED <<kv, queues, hist, pc, local>>

RetainNext ==
    \/ ListSetVia(SharedListViews, RetainItems)
    \/ ListRetainVia(SharedListViews)

SpecRetain == Init /\ [][RetainNext]_vars

\* C12 (retain stops at the first error): retain(list, pred) goes through the
\* entries from the head; the first entry whose key or value does not decode, or
\* for which pred returns an error, ends the scan and retain returns the error.
\* Of the entries before it exactly those for which pred returned false are
\* removed; that entry and all after it stay, and what stays keeps its order.
\* Without an error retain returns Ok and every entry was judged.
C12_RetainStopsAtFirstError ==
    (last.op = "list.retain") =>
        LET lv == last.view
            lk == make_list_key(lv.L, last.key)
            l == ListOf(last.pre, lk)
            Outcome(i) == LET d == DecodedPair(lv, l[i])
                          IN  IF d = Err THEN Err
                              ELSE IF d[1] = last.val.fail THEN Err
                              ELSE Ok(d[2] # last.val.drop)
            failing == { i \in 1..Len(l) : Outcome(i) = Err }
            stop == IF failing = {} THEN Len(l) + 1
                    ELSE CHOOSE i \in failing : \A j \in failing : i <= j
            Stays(i) == i >= stop \/ Outcome(i) = Ok(TRUE)
            staying == SelectSeq([i \in 1..Len(l) |-> i], Stays)
        IN  /\ ListOf(lists, lk) = [j \in 1..Len(staying) |-> l[staying[j]]]
            /\ \A other \in DOMAIN last.pre \ {lk} :
                   other \in DOMAIN lists /\ lists[other] = last.pre[other]
            /\ last.ret = IF failing = {} THEN Ok("unit") ELSE Err

\* retain through the u16 view on three entries: the first was removed (pred
\* false), the second, written through the bool view, did not decode, and the
\* third, for which pred is false too, is still there after the second.
C12_Witness ==
    /\ last.op = "list.retain"
    /\ last.view.V = "u16"
    /\ last.ret = Err
    /\ last.val.fail \notin RetainItems
    /\ LET lk == make_list_key(last.view.L, last.key)
           l == ListOf(last.pre, lk)
       IN  /\ Len(l) = 3
           /\ from_bytes("u16", l[1][2]) = Ok(last.val.drop)
           /\ from_bytes("u16", l[2][2]) = Err
           /\ from_bytes("u16", l[3][2]) = Ok(last.val.drop)
           /\ ListOf(lists, lk) = << l[2], l[3] >>

\* ------------------------------------------------------------- a program of map calls or of list calls
\* The behaviours of Spec and those of SpecList: the calls go through the map
\* views, or they go through the list view.
UsesMap == last.op \in {"new"} \cup MapOps
UsesList == last.op \in {"new"} \cup ListOps

MapOrListNext ==
    \/ UsesMap /\ MapContains
    \/ UsesMap /\ MapGet
    \/ UsesMap /\ MapReplace
    \/ UsesMap /\ MapSet
    \/ UsesMap /\ MapGetOrCreate
    \/ UsesMap /\ MapRemove
    \/ UsesList /\ ListRead
    \/ UsesList /\ ListSet
    \/ UsesList /\ ListSetPromoting
    \/ UsesList /\ ListGetOrCreate
    \/ UsesList /\ ListReplace
    \/ UsesList /\ ListRemove
    \/ UsesList /\ ListIter
    \/ UsesList /\ ListPop
    \/ UsesList /\ ListPeek
    \/ UsesList /\ ListRetain

SpecMapOrList == Init /\ [][MapOrListNext]_vars

\* C13 (replace never creates): replace on a map key, or on an item of a list,
\* that does not exist returns None and leaves the store as it was, the key still
\* absent, whatever the value and the expected argument; on an entry that
\* exists, with expected None, it writes the value in place and returns the
\* value the entry held.
C13_ReplaceNeverCreates ==
    /\ last.op = "map.replace" =>
           LET mv == last.view
               kbytes == make_key(mv.K, last.key)
           IN  IF kbytes \notin DOMAIN last.pre
               THEN /\ last.ret = None
                    /\ kv = last.pre
                    /\ CandyTypedStore_contains(kv, mv, last.key) = << "False" >>
               ELSE IsSome(last.exp) \/
                    /\ last.ret = OkSomeDecoded(mv.V, last.pre[kbytes])
                    /\ kv = Put(last.pre, kbytes, to_bytes(mv.V, last.val))
    /\ last.op = "list.replace" =>
           LET lv == last.view
               item_key == last.val[1]
           IN  IF CandyTypedList_contains(last.pre, lv, last.key, item_key) = << "False" >>
               THEN /\ last.ret = None
                    /\ lists = last.pre
                    /\ CandyTypedList_contains(lists, lv, last.key, item_key) = << "False" >>
               ELSE IsSome(last.exp) \/
                    /\ last.ret = CandyTypedList_get(last.pre, lv, last.key, item_key)
                    /\ CandyTypedList_get(lists, lv, last.key, item_key) = Some(last.val[2])
                    /\ IterKeys(lists, last.key) = IterKeys(last.pre, last.key)
                    /\ \A k \in Items \ {item_key} :
                           CandyTypedList_get(lists, lv, last.key, k)
                              = CandyTypedList_get(last.pre, lv, last.key, k)

\* replace with a matching-or-not expected value on a key that is absent, in a
\* store that holds other keys: nothing was written.
C13_Witness ==
    /\ last.op = "map.replace"
    /\ IsSome(last.exp)
    /\ make_key(last.view.K, last.key) \notin DOMAIN last.pre
    /\ last.pre # Empty
    /\ last.ret = None
    /\ kv = last.pre

\* ------------------------------------------------------------- the map as an abstract map
\* The map from K to V that a store holds for a view: the keys of K whose
\* composite key is in the store, each with its bytes decoded as V.
AbstractMap(s, mv) ==
    [k \in { x \in Keys(mv.K) : make_key(mv.K, x) \in DOMAIN s } |->
        from_bytes(mv.V, s[make_key(mv.K, k)])[2]]
Lookup(m, k) == IF k \in DOMAIN m THEN Some(m[k]) ELSE None

\* C14 (the map refines an abstract map from K to V): in every state get(k) is
\* the abstract map's value for k (None without one) and contains(k) is true
\* exactly when get(k) is Some; every call is the abstract operation: set
\* binds k to the value and returns the binding it replaced, remove unbinds k
\* and returns the binding it had, replace rebinds a bound k when expected is
\* None or the bound value and returns the old binding, get_or_create binds an
\* unbound k to the default and returns the binding, get and contains change
\* nothing; no call changes another key or the map of another view.
C14_MapRefinement ==
    /\ \A mv \in MapViews : \A k \in Keys(mv.K) :
           /\ CandyTypedStore_get(kv, mv, k) = Lookup(AbstractMap(kv, mv), k)
           /\ CandyTypedStore_contains(kv, mv, k) = << "True" >>
                 <=> IsSome(CandyTypedStore_get(kv, mv, k))
    /\ (last.op \in MapOps) =>
           LET mv == last.view
               k == last.key
               m == AbstractMap(last.pre, mv)
               m2 == AbstractMap(kv, mv)
               old == Lookup(m, k)
           IN  /\ \A other \in MapViews \ {mv} :
                      AbstractMap(kv, other) = AbstractMap(last.pre, other)
               /\ CASE last.op \in {"map.get", "map.contains"} -> m2 = m
                    [] last.op = "map.set" ->
                           /\ m2 = Put(m, k, last.val)
                           /\ last.ret = old
                    [] last.op = "map.remove" ->
                           /\ m2 = Del(m, k)
                           /\ last.ret = old
                    [] last.op = "map.replace" ->
                           IF IsSome(old) /\ (last.exp = None \/ last.exp = old)
                           THEN /\ m2 = Put(m, k, last.val)
                                /\ last.ret = old
                           ELSE /\ m2 = m
                                /\ last.ret = None
                    [] last.op = "map.get_or_create" ->
                           IF IsSome(old)
                           THEN /\ m2 = m
                                /\ last.ret = Ok(old[2])
                           ELSE /\ m2 = Put(m, k, last.val)
                                /\ last.ret = Ok(last.val)
               /\ last.op = "map.get" => last.ret = old
               /\ last.op = "map.contains" => (last.ret = << "True" >> <=> IsSome(old))

\* set(k, v2) on a key bound to another value v1 has returned Some(v1), and get
\* now returns v2.
C14_Witness ==
    /\ last.op = "map.set"
    /\ IsSome(last.ret)
    /\ last.ret # Some(last.val)
    /\ last.ret = Lookup(AbstractMap(last.pre, last.view), last.key)
    /\ CandyTypedStore_get(kv, last.view, last.key) = Some(last.val)

\* ------------------------------------------------------------- composing keys
\* make_key and make_list_key applied to a key of a key type, and to list
\* identifiers of two list-identifier types.
KeyTypes == {"u8", "u16", "bool", "MyPair", "YourPair"}

InitKeys ==
    /\ kv = Empty
    /\ lists = Empty
    /\ queues = Empty
    /\ last = Call("new", NoArg, NoArg, NoArg, NoArg, NoArg, Empty)
    /\ hist = [pushed |-> << >>, pops |-> 0, script |-> 0, kv0 |-> Empty]
    /\ pc = << >>
    /\ \E K \in KeyTypes, L \in KeyTypes, L2 \in KeyTypes :
       \E key \in Keys(K), list_key \in Keys(L), list_key2 \in Keys(L2) :
           local = [K |-> K, key |-> key, L |-> L, list_key |-> list_key,
                    L2 |-> L2, list_key2 |-> list_key2]

MakeKeys ==
    /\ last.op = "new"
    /\ last' = Call("make_keys", [K |-> local.K, L |-> local.L, L2 |-> local.L2],
                    local.key, << local.list_key, local.list_key2 >>, NoArg,
                    << make_key(local.K, local.key),
                       make_list_key(local.L, local.list_key),
                       make_list_key(local.L2, local.list_key2) >>,
                    Empty)
    /\ UNCHANGED <<kv, lists, queues, hist, pc, local>>

KeysNext == MakeKeys

SpecKeys == InitKeys /\ [][KeysNext]_vars

EndsWith(bytes, suffix) ==
    /\ Len(bytes) >= Len(suffix)
    /\ SubSeq(bytes, Len(bytes) - Len(suffix) + 1, Len(bytes)) = suffix

\* C15 as claimed: whatever the key type, the list-identifier types and their
\* TYPE_IDs, the composite map key is different from the composite list key, and
\* the composite list keys of two types with different TYPE_IDs are different.
C15_KeysNeverCoincide ==
    (last.op = "make_keys") =>
        /\ last.ret[1] # last.ret[2]
        /\ TYPE_ID(last.view.L) # TYPE_ID(last.view.L2) => last.ret[2] # last.ret[3]

\* C15 (map keys and list keys), amended: the composite map key is different
\* from the composite list key whenever the four TYPE_ID bytes of the
\* list-identifier type do not end with the TYPED_NAMESPACE bytes, as is the case
\* for every built-in type; the composite list keys of two list-identifier
\* types with different TYPE_IDs are different.
C15_KeysCoincideOnlyByTypeId ==
    /\ \A T \in {"u8", "u16", "u32", "bool"} :
           ~EndsWith(bytes_of(TYPE_ID(T)), TYPED_NAMESPACE)
    /\ (last.op = "make_keys") =>
           /\ ~EndsWith(bytes_of(TYPE_ID(last.view.L)), TYPED_NAMESPACE)
                  => last.ret[1] # last.ret[2]
           /\ TYPE_ID(last.view.L) # TYPE_ID(last.view.L2) => last.ret[2] # last.ret[3]

\* A u8 key and a bool list identifier with the same serialized bytes, and a
\* second list identifier of a caller's type with the bytes of a u16: the three
\* composite keys are different.
C15_Witness ==
    /\ last.op = "make_keys"
    /\ last.view = [K |-> "u8", L |-> "bool", L2 |-> "YourPair"]
    /\ to_bytes("u8", last.key) = to_bytes("bool", last.val[1])
    /\ last.ret[1] # last.ret[2]
    /\ last.ret[2] # last.ret[3]
    /\ Len(last.ret[1]) = Len(last.ret[3])

\* ------------------------------------------------------------- a program of list calls or of queue calls
\* The behaviours of SpecList and those of SpecDeque.
DequeOps == {"deque.push_head", "deque.push_tail", "deque.pop_head_with_idx",
             "deque.pop_head", "deque.pop_tail_with_idx", "deque.pop_tail",
             "deque.peek_head_with_idx", "deque.peek_head", "deque.peek_tail_with_idx",
             "deque.peek_tail", "deque.iter", "deque.iter_backwards", "deque.len",
             "deque.range"}
UsesDeque == last.op \in {"new"} \cup DequeOps

ListOrDequeNext ==
    \/ UsesList /\ ListRead
    \/ UsesList /\ ListSet
    \/ UsesList /\ ListSetPromoting
    \/ UsesList /\ ListGetOrCreate
    \/ UsesList /\ ListReplace
    \/ UsesList /\ ListRemove
    \/ UsesList /\ ListIter
    \/ UsesList /\ ListPop
    \/ UsesList /\ ListPeek
    \/ UsesList /\ ListRetain
    \/ UsesDeque /\ DequePushHead
    \/ UsesDeque /\ DequePushTail
    \/ UsesDeque /\ DequePopHeadWithIdx
    \/ UsesDeque /\ DequePopHead
    \/ UsesDeque /\ DequePopTailWithIdx
    \/ UsesDeque /\ DequePopTail
    \/ UsesDeque /\ DequePeek
    \/ UsesDeque /\ DequeIter
    \/ UsesDeque /\ DequeLenRange

SpecListOrDeque == Init /\ [][ListOrDequeNext]_vars

\* C18 (peek does not remove): a peek at either end of a list or of a queue,
\* with or without the index, leaves the elements, len and range as they were,
\* and the pop at the same end, were it the next call, returns what the peek
\* returned, the index included.
C18_PeekThenPop ==
    /\ last.op \in {"list.peek_head", "list.peek_tail"} =>
           /\ lists = last.pre
           /\ CandyTypedList_iter(lists, last.view, last.key)
                 = CandyTypedList_iter(last.pre, last.view, last.key)
           /\ CandyTypedList_len(lists, last.view, last.key)
                 = CandyTypedList_len(last.pre, last.view, last.key)
           /\ last.op = "list.peek_head" =>
                  CandyTypedList_pop_head(lists, last.view, last.key).ret = last.ret
           /\ last.op = "list.peek_tail" =>
                  CandyTypedList_pop_tail(lists, last.view, last.key).ret = last.ret
    /\ last.op \in {"deque.peek_head_with_idx", "deque.peek_head", "deque.peek_tail_with_idx",
                    "deque.peek_tail"} =>
           /\ queues = last.pre
           /\ CandyTypedDeque_iter(queues, last.view, last.key)
                 = CandyTypedDeque_iter(last.pre, last.view, last.key)
           /\ CandyTypedDeque_len(queues, last.view, last.key)
                 = CandyTypedDeque_len(last.pre, last.view, last.key)
           /\ CandyTypedDeque_range(queues, last.view, last.key)
                 = CandyTypedDeque_range(last.pre, last.view, last.key)
           /\ last.op = "deque.peek_head_with_idx" =>
                  CandyTypedDeque_pop_head_with_idx(queues, last.view, last.key).ret = last.ret
           /\ last.op = "deque.peek_head" =>
                  CandyTypedDeque_pop_head(queues, last.view, last.key).ret = last.ret
           /\ last.op = "deque.peek_tail_with_idx" =>
                  CandyTypedDeque_pop_tail_with_idx(queues, last.view, last.key).ret = last.ret
           /\ last.op = "deque.peek_tail" =>
                  CandyTypedDeque_pop_tail(queues, last.view, last.key).ret = last.ret

\* peek_head on a list of three items has returned the head, which is not the
\* tail; the three items are still there and pop_head would return the same.
C18_Witness ==
    /\ last.op = "list.peek_head"
    /\ IsSome(last.ret)
    /\ Len(CandyTypedList_iter(lists, last.view, last.key)) = 3
    /\ CandyTypedList_peek_tail(lists, last.view, last.key) # last.ret
    /\ CandyTypedList_pop_head(lists, last.view, last.key).ret = last.ret

\* ------------------------------------------------------------- concurrent replace
\* Each caller makes one call of CandyTypedStore::replace with an expected
\* value: the store's replace_raw is one atomic step, the only store call of the
\* typed replace; the caller then maps the status and returns.
CasView == [K |-> "bool", V |-> "u16"]
\* The stores the callers may start from: one key set earlier.
CasStores ==
    { CandyTypedStore_set(Empty, CasView, k, v).store : k \in Keys(CasView.K), v \in Vals(CasView.V) }

InitCas ==
    /\ kv \in CasStores
    /\ lists = Empty
    /\ queues = Empty
    /\ last = Call("new", NoArg, NoArg, NoArg, NoArg, NoArg, Empty)
    /\ hist = [pushed |-> << >>, pops |-> 0, script |-> 0, kv0 |-> kv]
    /\ pc = [p \in Procs |-> "ready"]
    /\ local = [p \in Procs |-> [key |-> 0, val |-> 0, exp |-> None, ret |-> NoArg]]

CasCall(p) ==
    /\ pc[p] = "ready"
    /\ \E key \in Keys(CasView.K) : \E val \in Vals(CasView.V) : \E e \in Vals(CasView.V) :
           LET r == CandyTypedStore_replace(kv, CasView, key, val, Some(e))
           IN  /\ kv' = r.store
               /\ local' = [local EXCEPT ![p] = [key |-> key, val |-> val, exp |-> Some(e),
                                                 ret |-> r.ret]]
    /\ pc' = [pc EXCEPT ![p] = "called"]
    /\ UNCHANGED <<lists, queues, last, hist>>

CasReturn(p) ==
    /\ pc[p] = "called"
    /\ pc' = [pc EXCEPT ![p] = "done"]
    /\ UNCHANGED <<kv, lists, queues, last, hist, local>>

CasNext == \E p \in Procs : CasCall(p) \/ CasReturn(p)

SpecCas == InitCas /\ [][CasNext]_vars

MaxClones == 2   \* clones made of the views
CloneMapView == [K |-> "u8", V |-> "u8"]
CloneDequeView == [L |-> "u8", V |-> "bool"]

CandyTypedStore_clone_deep(stores, self) ==
    [stores |-> Append(stores, stores[self.store]),
     view |-> [self EXCEPT !.store = Len(stores) + 1]]

\* `Self { store: self.store.clone(), _phantom }`: the clone of an Arc is the
\* same handle; no store is made.
CandyTypedStore_clone(stores, self) ==
    [stores |-> stores, view |-> [self EXCEPT !.store = self.store]]

CandyTypedDeque_clone(stores, self) ==
    [stores |-> stores, view |-> [self EXCEPT !.store = self.store]]

InitClone ==
    /\ kv = Empty
    /\ lists = Empty
    /\ queues = Empty
    /\ last = Call("new", NoArg, NoArg, NoArg, NoArg, NoArg, Empty)
    /\ hist = [pushed |-> << >>, pops |-> 0, script |-> 0, kv0 |-> Empty]
    /\ pc = << >>
    /\ \E first \in { [kind |-> "map", store |-> 1, types |-> CloneMapView],
                      [kind |-> "deque", store |-> 1, types |-> CloneDequeView] } :
           local = [stores |-> << [kv |-> Empty, queues |-> Empty] >>, views |-> << first >>]

CloneView ==
    \E i \in DOMAIN local.views :
        LET self == local.views[i]
            r == IF self.kind = "map" THEN CandyTypedStore_clone(local.stores, self)
                 ELSE CandyTypedDeque_clone(local.stores, self)
        IN  /\ Len(local.views) <= MaxClones
            /\ local' = [stores |-> r.stores, views |-> Append(local.views, r.view)]
            /\ last' = Call("clone", i, NoArg, NoArg, NoArg, Len(local.views) + 1, local.stores)
            /\ UNCHANGED <<kv, lists, queues, hist, pc>>

CloneMapGet ==
    \E i \in DOMAIN local.views : \E key \in Keys(CloneMapView.K) :
        LET self == local.views[i]
        IN  /\ self.kind = "map"
            /\ last' = Call("map.get", i, key, NoArg, NoArg,
                            CandyTypedStore_get(local.stores[self.store].kv, self.types, key),
                            local.stores)
            /\ UNCHANGED <<kv, lists, queues, hist, pc, local>>

CloneMapSet ==
    \E i \in DOMAIN local.views : \E key \in Keys(CloneMapView.K) :
    \E val \in Vals(CloneMapView.V) :
        LET self == local.views[i]
            r == CandyTypedStore_set(local.stores[self.store].kv, self.types, key, val)
        IN  /\ self.kind = "map"
            /\ local' = [local EXCEPT !.stores[self.store].kv = r.store]
            /\ last' = Call("map.set", i, key, val, NoArg, r.ret, local.stores)
            /\ UNCHANGED <<kv, lists, queues, hist, pc>>

CloneMapRemove ==
    \E i \in DOMAIN local.views : \E key \in Keys(CloneMapView.K) :
        LET self == local.views[i]
            r == CandyTypedStore_remove(local.stores[self.store].kv, self.types, key)
        IN  /\ self.kind = "map"
            /\ local' = [local EXCEPT !.stores[self.store].kv = r.store]
            /\ last' = Call("map.remove", i, key, NoArg, NoArg, r.ret, local.stores)
            /\ UNCHANGED <<kv, lists, queues, hist, pc>>

CloneDequePushTail ==
    \E i \in DOMAIN local.views : \E queue_key \in QueueKeys :
    \E val \in Vals(CloneDequeView.V) :
        LET self == local.views[i]
            q == local.stores[self.store].queues
            r == CandyTypedDeque_push_tail(q, self.types, queue_key, val)
        IN  /\ self.kind = "deque"
            /\ QueueOf(q, make_list_key(self.types.L, queue_key)).next < MaxPushes
            /\ local' = [local EXCEPT !.stores[self.store].queues = r.store]
            /\ last' = Call("deque.push_tail", i, queue_key, val, NoArg, r.ret, local.stores)
            /\ UNCHANGED <<kv, lists, queues, hist, pc>>

CloneDequePopHead ==
    \E i \in DOMAIN local.views : \E queue_key \in QueueKeys :
        LET self == local.views[i]
            r == CandyTypedDeque_pop_head(local.stores[self.store].queues, self.types, queue_key)
        IN  /\ self.kind = "deque"
            /\ local' = [local EXCEPT !.stores[self.store].queues = r.store]
            /\ last' = Call("deque.pop_head", i, queue_key, NoArg, NoArg, r.ret, local.stores)
            /\ UNCHANGED <<kv, lists, queues, hist, pc>>

CloneDequeIter ==
    \E i \in DOMAIN local.views : \E queue_key \in QueueKeys :
        LET self == local.views[i]
        IN  /\ self.kind = "deque"
            /\ last' = Call("deque.iter", i, queue_key, NoArg, NoArg,
                            CandyTypedDeque_iter(local.stores[self.store].queues, self.types,
                                                 queue_key),
                            local.stores)
            /\ UNCHANGED <<kv, lists, queues, hist, pc, local>>

CloneNext ==
    \/ CloneView
    \/ CloneMapGet
    \/ CloneMapSet
    \/ CloneMapRemove
    \/ CloneDequePushTail
    \/ CloneDequePopHead
    \/ CloneDequeIter

SpecClone == InitClone /\ [][CloneNext]_vars

\* What a read through the view object self returns in the current state.
GetThrough(self, key) == CandyTypedStore_get(local.stores[self.store].kv, self.types, key)
IterThrough(self, queue_key) ==
    CandyTypedDeque_iter(local.stores[self.store].queues, self.types, queue_key)

\* C19 (clones share the store): every clone holds the handle the first view
\* holds and cloning makes no store; so right after a call through any of the
\* view objects a read through each of them returns the same: the value set,
\* None for the key removed, the queue with the element pushed at its tail or
\* without the head that was popped.
C19_ClonesShareStore ==
    /\ \A i \in DOMAIN local.views : local.views[i].store = local.views[1].store
    /\ Len(local.stores) = 1
    /\ last.op = "clone" => local.views[last.ret] = local.views[last.view]
    /\ last.op = "map.set" =>
           \A j \in DOMAIN local.views : GetThrough(local.views[j], last.key) = Some(last.val)
    /\ last.op = "map.remove" =>
           \A j \in DOMAIN local.views : GetThrough(local.views[j], last.key) = None
    /\ last.op = "deque.push_tail" =>
           \A j \in DOMAIN local.views :
               LET it == IterThrough(local.views[j], last.key)
                   before == CandyTypedDeque_iter(last.pre[local.views[last.view].store].queues,
                                                  local.views[last.view].types, last.key)
               IN  /\ Len(it) = Len(before) + 1
                   /\ SubSeq(it, 1, Len(before)) = before
                   /\ it[Len(it)][2][2] = last.val
    /\ last.op = "deque.pop_head" =>
           \A j \in DOMAIN local.views :
               LET it == IterThrough(local.views[j], last.key)
                   before == CandyTypedDeque_iter(last.pre[local.views[last.view].store].queues,
                                                  local.views[last.view].types, last.key)
               IN  IF before = << >> THEN it = << >> /\ last.ret = None
                   ELSE it = Tail(before) /\ last.ret = Some(before[1][2][2])

\* The second clone has set a key to a value it did not have; get through the
\* first view returns the value.
C19_Witness ==
    /\ last.op = "map.set"
    /\ last.view = 3
    /\ last.ret # Some(last.val)
    /\ GetThrough(local.views[1], last.key) = Some(last.val)
    /\ CandyTypedStore_get(last.pre[local.views[1].store].kv, CloneMapView, last.key)
          # Some(last.val)

\* ------------------------------------------------------------- concurrent queue callers
\* Each caller makes one call of push_head, push_tail, pop_head_with_idx or
\* pop_tail_with_idx on the same queue.  Each of the four makes a single store
\* call, which the store performs as one atomic step; the caller then re-types
\* the answer and returns.
QueueCallersView == DequeView
QueueCallersKey == CHOOSE queue_key \in QueueKeys : TRUE
\* The stores the callers may start from: the queue after zero to two earlier pushes.
RECURSIVE QueueStoresAfter(_)
QueueStoresAfter(n) ==
    IF n = 0 THEN {Empty}
    ELSE LET prev == QueueStoresAfter(n - 1)
         IN  { CandyTypedDeque_push_head(s, QueueCallersView, QueueCallersKey, v).store :
                   s \in prev, v \in Vals(QueueCallersView.V) }
             \cup { CandyTypedDeque_push_tail(s, QueueCallersView, QueueCallersKey, v).store :
                        s \in prev, v \in Vals(QueueCallersView.V) }
QueueCallersStores == QueueStoresAfter(0) \cup QueueStoresAfter(1) \cup QueueStoresAfter(2)

InitQueueCallers ==
    /\ kv = Empty
    /\ lists = Empty
    /\ queues \in QueueCallersStores
    /\ last = Call("new", NoArg, NoArg, NoArg, NoArg, NoArg, Empty)
    /\ hist = [pushed |-> << >>, pops |-> 0, script |-> 0, kv0 |-> queues]
    /\ pc = [p \in Procs |-> "ready"]
    /\ local = [p \in Procs |-> [op |-> "-", val |-> 0, idx |-> NoArg, ret |-> NoArg]]

QueueCallerPushHead(p) ==
    /\ pc[p] = "ready"
    /\ \E val \in Vals(QueueCallersView.V) :
           LET r == CandyTypedDeque_push_head(queues, QueueCallersView, QueueCallersKey, val)
           IN  /\ queues' = r.store
               /\ local' = [local EXCEPT ![p] = [op |-> "deque.push_head", val |-> val,
                                                 idx |-> r.idx, ret |-> r.ret]]
    /\ pc' = [pc EXCEPT ![p] = "called"]
    /\ UNCHANGED <<kv, lists, last, hist>>

QueueCallerPushTail(p) ==
    /\ pc[p] = "ready"
    /\ \E val \in Vals(QueueCallersView.V) :
           LET r == CandyTypedDeque_push_tail(queues, QueueCallersView, QueueCallersKey, val)
           IN  /\ queues' = r.store
               /\ local' = [local EXCEPT ![p] = [op |-> "deque.push_tail", val |-> val,
                                                 idx |-> r.idx, ret |-> r.ret]]
    /\ pc' = [pc EXCEPT ![p] = "called"]
    /\ UNCHANGED <<kv, lists, last, hist>>

QueueCallerPopHead(p) ==
    /\ pc[p] = "ready"
    /\ LET r == CandyTypedDeque_pop_head_with_idx(queues, QueueCallersView, QueueCallersKey)
       IN  /\ queues' = r.store
           /\ local' = [local EXCEPT ![p] = [op |-> "deque.pop_head_with_idx", val |-> 0,
                                             idx |-> NoArg, ret |-> r.ret]]
    /\ pc' = [pc EXCEPT ![p] = "called"]
    /\ UNCHANGED <<kv, lists, last, hist>>

QueueCallerPopTail(p) ==
    /\ pc[p] = "ready"
    /\ LET r == CandyTypedDeque_pop_tail_with_idx(queues, QueueCallersView, QueueCallersKey)
       IN  /\ queues' = r.store
           /\ local' = [local EXCEPT ![p] = [op |-> "deque.pop_tail_with_idx", val |-> 0,
                                             idx |-> NoArg, ret |-> r.ret]]
    /\ pc' = [pc EXCEPT ![p] = "called"]
    /\ UNCHANGED <<kv, lists, last, hist>>

QueueCallerReturn(p) ==
    /\ pc[p] = "called"
    /\ pc' = [pc EXCEPT ![p] = "done"]
    /\ UNCHANGED <<kv, lists, queues, last, hist, local>>

QueueCallersNext ==
    \E p \in Procs :
        \/ QueueCallerPushHead(p)
        \/ QueueCallerPushTail(p)
        \/ QueueCallerPopHead(p)
        \/ QueueCallerPopTail(p)
        \/ QueueCallerReturn(p)

SpecQueueCallers == InitQueueCallers /\ [][QueueCallersNext]_vars

\* The elements pushed so far, each as <<index the store gave it, value>>: those
\* the queue held when the callers started and those the callers pushed.
PushedBefore ==
    LET q == QueueOf(hist.kv0, make_list_key(QueueCallersView.L, QueueCallersKey))
    IN  { << q.items[i][1], from_bytes(QueueCallersView.V, q.items[i][2])[2] >> :
              i \in 1..Len(q.items) }
Pushers == { p \in Procs : pc[p] # "ready" /\ local[p].op \in PushOps }
Poppers == { p \in Procs : pc[p] # "ready" /\ local[p].op \notin PushOps /\ IsSome(local[p].ret) }
PushedByCallers == { << local[p].idx, local[p].val >> : p \in Pushers }

\* C21 (concurrent queue pops and pushes): in whatever order the store calls of
\* concurrent push_head, push_tail, pop_head_with_idx and pop_tail_with_idx
\* callers on one queue happen, every element a pop returns was pushed, no two
\* pops return the same element, and no two pushes are given the same index.
C21_QueueCallersSafe ==
    /\ \A p \in Poppers : local[p].ret[2] \in PushedBefore \cup PushedByCallers
    /\ \A p, q \in Poppers : p # q => local[p].ret[2][1] # local[q].ret[2][1]
    /\ \A p, q \in Pushers : p # q => local[p].idx # local[q].idx
    /\ \A p \in Pushers : \A e \in PushedBefore : local[p].idx # e[1]

\* All callers have returned; two of them popped, from different ends, a queue
\* that held one element when they started and that nobody pushed to: one of
\* them got the element and the other got None.
C21_Witness ==
    /\ \A p \in Procs : pc[p] = "done"
    /\ Cardinality(PushedBefore) = 1
    /\ Pushers = {}
    /\ Cardinality(Poppers) = 1
    /\ \E p, q \in Procs :
           /\ local[p].op = "deque.pop_head_with_idx"
           /\ local[q].op = "deque.pop_tail_with_idx"
           /\ {local[p].ret, local[q].ret} = {None, Some(CHOOSE e \in PushedBefore : TRUE)}

\* ------------------------------------------------------------- claims about list pops
\* C22 (list pops take the extremes of the iteration order): on a list that is
\* not empty pop_head removes and returns the first element of iter and pop_tail
\* removes and returns the first element of iter_backwards, len goes down by
\* one and the other elements stay in their order; on an empty list both
\* return None and the store is as it was.
C22_PopsTakeExtremes ==
    last.op \in {"list.pop_head", "list.pop_tail"} =>
        LET before == CandyTypedList_iter(last.pre, last.view, last.key)
            before_back == CandyTypedList_iter_backwards(last.pre, last.view, last.key)
            after == CandyTypedList_iter(lists, last.view, last.key)
            after_back == CandyTypedList_iter_backwards(lists, last.view, last.key)
            n == CandyTypedList_len(last.pre, last.view, last.key)[2]
        IN  IF n = 0
            THEN /\ last.ret = None
                 /\ lists = last.pre
            ELSE /\ CandyTypedList_len(lists, last.view, last.key) = Ok(n - 1)
                 /\ last.op = "list.pop_head" =>
                        /\ last.ret = Some(before[1][2])
                        /\ after = Tail(before)
                        /\ after_back = SubSeq(before_back, 1, n - 1)
                 /\ last.op = "list.pop_tail" =>
                        /\ last.ret = Some(before_back[1][2])
                        /\ after_back = Tail(before_back)
                        /\ after = SubSeq(before, 1, n - 1)

\* pop_head on a list of three items has returned the item iter yielded first,
\* which is not the one iter_backwards yielded first; the other two are left
\* in their order.
C22_Witness ==
    /\ last.op = "list.pop_head"
    /\ Len(CandyTypedList_iter(last.pre, last.view, last.key)) = 3
    /\ last.ret = Some(CandyTypedList_iter(last.pre, last.view, last.key)[1][2])
    /\ last.ret # Some(CandyTypedList_iter_backwards(last.pre, last.view, last.key)[1][2])
    /\ CandyTypedList_iter(lists, last.view, last.key)
          = Tail(CandyTypedList_iter(last.pre, last.view, last.key))

\* ------------------------------------------------------------- mutating calls through shared views
\* The calls that change the store and decode what the store hands back, made
\* through views that share their keys and differ in the width of the value:
\* a program uses the map views, or the list views, or the queue views.
MutatorItems == {0, 1}

ListReplaceVia(views, items) ==
    \E lv \in views : \E list_key \in ListKeys : \E item_key \in items : \E val \in Vals(lv.V) :
    \E exp \in {None} \cup { Some(e) : e \in Vals(lv.V) } :
        LET r == CandyTypedList_replace(lists, lv, list_key, item_key, val, exp)
        IN  /\ lists' = r.store
            /\ last' = Call("list.replace", lv, list_key, << item_key, val >>, exp, r.ret, lists)
            /\ UNCHANGED <<kv, queues, hist, pc, local>>

ListRemoveVia(views, items) ==
    \E lv \in views : \E list_key \in ListKeys : \E item_key \in items :
        LET r == CandyTypedList_remove(lists, lv, list_key, item_key)
        IN  /\ lists' = r.store
            /\ last' = Call("list.remove", lv, list_key, item_key, NoArg, r.ret, lists)
            /\ UNCHANGED <<kv, queues, hist, pc, local>>

ListPopTailVia(views) ==
    \E lv \in views : \E list_key \in ListKeys :
        LET r == CandyTypedList_pop_tail(lists, lv, list_key)
        IN  /\ lists' = r.store
            /\ last' = Call("list.pop_tail", lv, list_key, NoArg, NoArg, r.ret, lists)
            /\ UNCHANGED <<kv, queues, hist, pc, local>>

ListPopHeadVia(views) ==
    \E lv \in views : \E list_key \in ListKeys :
        LET r == CandyTypedList_pop_head(lists, lv, list_key)
        IN  /\ lists' = r.store
            /\ last' = Call("list.pop_head", lv, list_key, NoArg, NoArg, r.ret, lists)
            /\ UNCHANGED <<kv, queues, hist, pc, local>>

MutatorsNext ==
    \/ UsesMap /\ MapSetVia(SharedKeyViews)
    \/ UsesMap /\ MapReplaceVia(SharedKeyViews)
    \/ UsesMap /\ MapRemoveVia(SharedKeyViews)
    \/ UsesList /\ ListSetVia(SharedListViews, MutatorItems)
    \/ UsesList /\ ListReplaceVia(SharedListViews, MutatorItems)
    \/ UsesList /\ ListRemoveVia(SharedListViews, MutatorItems)
    \/ UsesList /\ ListPopTailVia(SharedListViews)
    \/ UsesList /\ ListPopHeadVia(SharedListViews)
    \/ UsesDeque /\ DequePushHeadVia(SharedQueueViews)
    \/ UsesDeque /\ DequePushTailVia(SharedQueueViews)
    \/ UsesDeque /\ DequePopHeadWithIdxVia(SharedQueueViews)
    \/ UsesDeque /\ DequePopHeadVia(SharedQueueViews)
    \/ UsesDeque /\ DequePopTailWithIdxVia(SharedQueueViews)
    \/ UsesDeque /\ DequePopTailVia(SharedQueueViews)

SpecMutators == Init /\ [][MutatorsNext]_vars

\* C23 (mutation precedes decoding): when set, replace or remove through a map
\* or list view, or pop_head or pop_tail through a list or queue view, returns
\* a decode error, the store has nevertheless changed: the key or item holds
\* the bytes of the new value (set, replace), or the entry is gone (remove), or
\* the element at that end is gone and the others are as they were (pops).
C23_MutationNotRolledBack ==
    last.ret = Err =>
        /\ last.op \in {"map.set", "map.replace"} =>
               /\ get_raw(last.pre, make_key(last.view.K, last.key)) # None
               /\ get_raw(kv, make_key(last.view.K, last.key))
                     = Some(to_bytes(last.view.V, last.val))
               /\ kv # last.pre
               /\ kv = Put(last.pre, make_key(last.view.K, last.key),
                           to_bytes(last.view.V, last.val))
        /\ last.op = "map.remove" =>
               /\ get_raw(last.pre, make_key(last.view.K, last.key)) # None
               /\ get_raw(kv, make_key(last.view.K, last.key)) = None
               /\ kv = Del(last.pre, make_key(last.view.K, last.key))
        /\ last.op \in {"list.set", "list.replace"} =>
               LET lk == make_list_key(last.view.L, last.key)
                   ik == to_bytes(last.view.K, last.val[1])
               IN  /\ owned_get_from_list(last.pre, lk, ik) # None
                   /\ owned_get_from_list(lists, lk, ik)
                         = Some(to_bytes(last.view.V, last.val[2]))
                   /\ lists # last.pre
        /\ last.op = "list.remove" =>
               LET lk == make_list_key(last.view.L, last.key)
                   ik == to_bytes(last.view.K, last.val)
               IN  /\ owned_get_from_list(last.pre, lk, ik) # None
                   /\ owned_get_from_list(lists, lk, ik) = None
                   /\ owned_list_len(lists, lk) = owned_list_len(last.pre, lk) - 1
        /\ last.op = "list.pop_head" =>
               LET lk == make_list_key(last.view.L, last.key)
               IN  /\ ListOf(last.pre, lk) # << >>
                   /\ ListOf(lists, lk) = Tail(ListOf(last.pre, lk))
        /\ last.op = "list.pop_tail" =>
               LET lk == make_list_key(last.view.L, last.key)
                   l == ListOf(last.pre, lk)
               IN  /\ l # << >>
                   /\ ListOf(lists, lk) = SubSeq(l, 1, Len(l) - 1)
        /\ last.op \in {"deque.pop_head_with_idx", "deque.pop_head"} =>
               LET qk == make_list_key(last.view.L, last.key)
               IN  /\ QueueOf(last.pre, qk).items # << >>
                   /\ QueueOf(queues, qk).items = Tail(QueueOf(last.pre, qk).items)
        /\ last.op \in {"deque.pop_tail_with_idx", "deque.pop_tail"} =>
               LET qk == make_list_key(last.view.L, last.key)
                   q == QueueOf(last.pre, qk).items
               IN  /\ q # << >>
                   /\ QueueOf(queues, qk).items = SubSeq(q, 1, Len(q) - 1)

\* set through the u16 view on a key that held the one byte written through the
\* bool view has returned a decode error, and the key now holds the two bytes
\* of the new value.
C23_Witness ==
    /\ last.op = "map.set"
    /\ last.view = [K |-> "bool", V |-> "u16"]
    /\ last.ret = Err
    /\ Len(last.pre[make_key(last.view.K, last.key)]) = 1
    /\ kv[make_key(last.view.K, last.key)] = to_bytes(last.view.V, last.val)

====
